---- MODULE Spec2Model ----
(***************************************************************************)
(* Tournament engine of fumble_bot_reloaded: one tournament, its matches,  *)
(* its per-tournament PlayerStats rows and the lifetime User records.      *)
(* Operations are those of TournamentService (join, leave, start, report,  *)
(* drop, resetRound, finalize) and of the /validate command (execute,      *)
(* calculateStandings, generateNextSwissRoundPairings, finishTournament).  *)
(***************************************************************************)
EXTENDS Integers, Sequences, FiniteSets, TLC

(***************************************************************************)
(* Bounds of the model.                                                    *)
(***************************************************************************)
NumUsers == 6
Stake == 1
MaxInterventions == 1
MaxAborts == 1
MaxInflight == 2
MaxField == 4
MaxBracketSize == 32

(***************************************************************************)
(* Program constants.                                                      *)
(***************************************************************************)
MinPlayers == 4
NoCutBelow == 8
WinPoints == 3
DrawPoints == 1
DefaultElo == 1000

Users == 1 .. NumUsers
Organizer == 1
PoorUser == NumUsers
NoPlayer == 0
Slots == 1 .. MaxInflight

\* the users whose calls the runs of the tournament are made of, next to the
\* user who cannot pay
Field == 1 .. MaxField

\* config.pointsRequired chosen at creation (0 = the default of the field size)
CutPoints == {0, 9, 12}

\* tournament.maxPlayers chosen at creation (0 = unlimited)
MaxPlayersCap == 5

(***************************************************************************)
(* Exact fractions <<n, d>> (d > 0, lowest terms) stand for the JavaScript *)
(* numbers held in tiebreaker1_OWP and tiebreaker2_OOWP.                   *)
(***************************************************************************)
RECURSIVE Gcd(_, _)
Gcd(a, b) == IF b = 0 THEN a ELSE Gcd(b, a % b)

Abs(x) == IF x < 0 THEN -x ELSE x

Frac(n, d) ==
    LET g == Gcd(Abs(n), d)
    IN IF n = 0 THEN <<0, 1>> ELSE <<n \div g, d \div g>>

FZero == <<0, 1>>
FAdd(x, y) == Frac(x[1] * y[2] + y[1] * x[2], x[2] * y[2])
FDivInt(x, k) == Frac(x[1], x[2] * k)
FLess(x, y) == x[1] * y[2] < y[1] * x[2]
FMin(x, y) == IF FLess(y, x) THEN y ELSE x
FMax(x, y) == IF FLess(x, y) THEN y ELSE x

RECURSIVE FSum(_, _)
FSum(S, f) ==
    IF S = {} THEN FZero
    ELSE LET x == CHOOSE y \in S : TRUE
         IN FAdd(f[x], FSum(S \ {x}, f))

RECURSIVE SumOver(_, _)
SumOver(S, f) ==
    IF S = {} THEN 0
    ELSE LET x == CHOOSE y \in S : TRUE
         IN f[x] + SumOver(S \ {x}, f)

Range(s) == {s[i] : i \in 1 .. Len(s)}

\* all orderings of a finite set, as sequences
RECURSIVE Perms(_)
Perms(S) ==
    IF S = {} THEN {<<>>}
    ELSE UNION {{<<x>> \o p : p \in Perms(S \ {x})} : x \in S}

VARIABLES
    status,         \* tournament.status
    currentRound,   \* tournament.currentRound
    participants,   \* tournament.participants (user ids)
    config,         \* tournament.config
    prizeMode,      \* tournament.prizeMode
    standings,      \* tournament.standings (final snapshot, user ids by rank)
    matches,        \* Match collection of the tournament, in insertion order
    oidCounter,     \* number of Match documents ever created (_id source)
    stats,          \* PlayerStats collection: user id -> row or NoStats
    users,          \* User collection: user id -> lifetime record
    txns,           \* transactions in flight
    failed,         \* the last call that wrote or aborted ended in an error
    resets,         \* number of resetRound calls so far
    drops,          \* number of successful drops so far
    aborts,         \* number of aborted transactions so far
    bracket,        \* generateBracket: its bracketSize and the rounds it returns
    follow,         \* two bracket positions and where their winners have got to
    reporting       \* the reportMatch transactions in flight, one per slot

vars == <<status, currentRound, participants, config, prizeMode, standings,
          matches, oidCounter, stats, users, txns, failed, resets, drops,
          aborts, bracket, follow, reporting>>

\* an unset playerNStatsBeforeReport: a Mongoose nested path is always an
\* object, its unset numbers read back as the schema default 0
NoSnap == [set |-> FALSE, wins |-> 0, losses |-> 0, draws |-> 0, score |-> 0]
\* round and elo0: tournament.currentRound and the user's elo as the call read them
NoTxn == [op |-> "none", user |-> NoPlayer, stale |-> FALSE, round |-> 0, elo0 |-> 0]

\* new PlayerStats({ score: 0, wins: 0, ... activeInTournament: true });
\* initialSeed 0 is a row without seed, eliminationStage "" is null
NewPlayerStats ==
    [score |-> 0, wins |-> 0, losses |-> 0, draws |-> 0,
     matchesPlayed |-> {}, opponents |-> {},
     owp |-> FZero, oowp |-> FZero,
     receivedByeInRound |-> 0, activeInTournament |-> TRUE,
     initialSeed |-> 0, eliminationStage |-> ""]

\* findOrCreateUser: users exist with their lifetime record
InitElo(u) == IF u = PoorUser THEN 0 ELSE DefaultElo

NewUser(u) ==
    [elo |-> InitElo(u), tournamentWins |-> 0, tournamentParticipations |-> 0,
     totalWins |-> 0, totalLosses |-> 0]

\* no bracket has been asked for, no position is followed
NoBracket == [size |-> 0, rounds |-> <<>>]
NoFollow == [from |-> <<>>, at |-> <<>>]

\* no reportMatch transaction in the slot
NoReport == [op |-> "none"]

\* createTournament: the state right after construction
Created ==
    /\ status = "pending"
    /\ currentRound = 0
    /\ participants = {}
    /\ config = [numSwissRounds |-> 0, topCutSize |-> 0, cutType |-> "rank",
                 pointsRequired |-> 0, isTwoPhase |-> FALSE, phase1Rounds |-> 0]
    /\ prizeMode \in {"all", "spread"}
    /\ standings = <<>>
    /\ matches = <<>>
    /\ oidCounter = 0
    /\ stats = <<>>
    /\ users = [u \in Users |-> NewUser(u)]
    /\ txns = [s \in Slots |-> NoTxn]
    /\ failed = FALSE
    /\ resets = 0
    /\ drops = 0
    /\ aborts = 0

Init ==
    /\ Created
    /\ bracket = NoBracket
    /\ follow = NoFollow
    /\ reporting = [s \in Slots |-> NoReport]

(***************************************************************************)
(* Transactions.  joinTournament, leaveTournament and the /validate        *)
(* command read the tournament inside a MongoDB transaction and write it   *)
(* at the end; a transaction whose documents were written by a call that   *)
(* committed after it started fails with a write conflict and is aborted.  *)
(***************************************************************************)
\* every committed write to the tournament's documents invalidates the
\* transactions that are still open
MarkStale(t) == [s \in Slots |-> IF t[s].op = "none" THEN t[s] ELSE [t[s] EXCEPT !.stale = TRUE]]

\* a database without conflict detection: the later commit overwrites
LastWriterWins(t) == FALSE

WriteConflict(t) == t.stale

Idle == \A s \in Slots : txns[s].op = "none"

\* a transaction that is bound to fail does so before the next call starts
NoneStale == \A s \in Slots : ~txns[s].stale

\* registration calls run next to each other while aborts are left
Overlap == Idle \/ status # "pending" \/ aborts < MaxAborts

MayBegin(s) ==
    /\ txns[s].op = "none"
    /\ \A r \in Slots : r < s => txns[r].op # "none"
    /\ NoneStale
    /\ Overlap

\* a call that is no transaction of the model writes at once, also next to
\* open transactions
MayWrite == NoneStale /\ Overlap

Returned(ok) == failed' = ~ok

\* a call rejected before its first write leaves every document as it was
Rejected == UNCHANGED vars

(***************************************************************************)
(* joinTournament(tournamentId, userId, discordTag, executingUserId)       *)
(***************************************************************************)
\* a join that does not look at maxPlayers
JoinUncapped(u, actor) ==
    /\ status = "pending"
    /\ ~(u # actor /\ actor # Organizer)
    /\ u \notin participants
    /\ u \notin DOMAIN stats
    /\ ~(users[u].elo < Stake)

JoinAllowed(u, actor) ==
    /\ status = "pending"
    /\ ~(MaxPlayersCap > 0 /\ Cardinality(participants) >= MaxPlayersCap)
    /\ ~(u # actor /\ actor # Organizer)
    /\ u \notin participants
    /\ u \notin DOMAIN stats
    /\ ~(users[u].elo < Stake)

\* userService.updateUserRankPeakLow(user, newElo, session): UserService
\* takes no session, so user.save() is written outside the transaction
SetElo(us, u, newElo) == [us EXCEPT ![u].elo = newElo]

JoinBegin(u, actor, s) ==
    /\ MayBegin(s)
    /\ IF JoinAllowed(u, actor)
       THEN /\ users' = IF Stake > 0 THEN SetElo(users, u, users[u].elo - Stake) ELSE users
            /\ txns' = [txns EXCEPT ![s] = [op |-> "join", user |-> u, stale |-> FALSE,
                                            round |-> currentRound,
                                            elo0 |-> users[u].elo]]
            /\ UNCHANGED <<status, currentRound, participants, config, prizeMode, bracket, follow, reporting,
                           standings, matches, oidCounter, stats, failed,
                           resets, drops, aborts>>
       ELSE Rejected

JoinCommit(s) ==
    /\ txns[s].op = "join"
    /\ LET u == txns[s].user
       IN IF WriteConflict(txns[s])
          THEN /\ txns' = [txns EXCEPT ![s] = NoTxn]
               /\ aborts' = aborts + 1
               /\ Returned(FALSE)
               /\ UNCHANGED <<status, currentRound, participants, config, prizeMode, bracket, follow, reporting,
                              standings, matches, oidCounter, stats, users,
                              resets, drops>>
          ELSE /\ participants' = participants \cup {u}
               /\ stats' = (u :> NewPlayerStats) @@ stats
               /\ txns' = [MarkStale(txns) EXCEPT ![s] = NoTxn]
               /\ Returned(TRUE)
               /\ UNCHANGED <<status, currentRound, config, prizeMode, bracket, follow, reporting, standings,
                              matches, oidCounter, users, resets, drops, aborts>>

(***************************************************************************)
(* leaveTournament(tournamentId, userId, userTag, executingUserId)         *)
(***************************************************************************)
\* a leave without the check of the status
LeaveAnyStatus(u, actor) ==
    /\ ~(u # actor /\ actor # Organizer)
    /\ u \in participants

LeaveAllowed(u, actor) ==
    /\ status = "pending"
    /\ ~(u # actor /\ actor # Organizer)
    /\ u \in participants

LeaveBegin(u, actor, s) ==
    /\ MayBegin(s)
    /\ IF LeaveAllowed(u, actor)
       THEN /\ users' = IF Stake > 0 THEN SetElo(users, u, users[u].elo + Stake) ELSE users
            /\ txns' = [txns EXCEPT ![s] = [op |-> "leave", user |-> u, stale |-> FALSE,
                                            round |-> currentRound,
                                            elo0 |-> users[u].elo]]
            /\ UNCHANGED <<status, currentRound, participants, config, prizeMode, bracket, follow, reporting,
                           standings, matches, oidCounter, stats, failed,
                           resets, drops, aborts>>
       ELSE Rejected

LeaveCommit(s) ==
    /\ txns[s].op = "leave"
    /\ LET u == txns[s].user
       IN IF WriteConflict(txns[s])
          THEN /\ txns' = [txns EXCEPT ![s] = NoTxn]
               /\ aborts' = aborts + 1
               /\ Returned(FALSE)
               /\ UNCHANGED <<status, currentRound, participants, config, prizeMode, bracket, follow, reporting,
                              standings, matches, oidCounter, stats, users,
                              resets, drops>>
          ELSE /\ participants' = participants \ {u}
               /\ stats' = [v \in (DOMAIN stats) \ {u} |-> stats[v]]
               /\ txns' = [MarkStale(txns) EXCEPT ![s] = NoTxn]
               /\ Returned(TRUE)
               /\ UNCHANGED <<status, currentRound, config, prizeMode, bracket, follow, reporting, standings,
                              matches, oidCounter, users, resets, drops, aborts>>

(***************************************************************************)
(* getTournamentParameters(playerCount)                                    *)
(***************************************************************************)
TwoPhase(p1, p2, cut) ==
    [ok |-> TRUE, numSwissRounds |-> p1 + p2, topCutSize |-> cut,
     pointsRequired |-> ((p1 + p2 - 3) * 3) + 1,
     isTwoPhase |-> TRUE, phase1Rounds |-> p1, phase2Rounds |-> p2]

OnePhase(n, cut) ==
    [ok |-> TRUE, numSwissRounds |-> n, topCutSize |-> cut,
     pointsRequired |-> ((n - 3) * 3) + 1,
     isTwoPhase |-> FALSE, phase1Rounds |-> n, phase2Rounds |-> 0]

getTournamentParameters(playerCount) ==
    IF playerCount < MinPlayers THEN [ok |-> FALSE]
    ELSE IF playerCount < 8 THEN OnePhase(3, 0)
    ELSE IF playerCount = 8 THEN OnePhase(3, 2)
    ELSE IF playerCount <= 16 THEN OnePhase(4, 4)
    ELSE IF playerCount <= 32 THEN OnePhase(5, 8)
    ELSE IF playerCount <= 64 THEN OnePhase(6, 8)
    ELSE IF playerCount <= 128 THEN TwoPhase(6, 2, 16)
    ELSE IF playerCount <= 256 THEN TwoPhase(7, 2, 16)
    ELSE IF playerCount <= 512 THEN TwoPhase(8, 2, 32)
    ELSE IF playerCount <= 1024 THEN TwoPhase(8, 3, 32)
    ELSE IF playerCount <= 2048 THEN TwoPhase(8, 4, 32)
    ELSE TwoPhase(9, 4, 32)

(***************************************************************************)
(* getRoundName(numPlayers) and generateBracket(bracketSize) of the        *)
(* /validate command                                                       *)
(***************************************************************************)
\* winnerGoesTo: null
NoPosition == ""

getRoundName(numPlayers) ==
    IF numPlayers = 2 THEN "Finals"
    ELSE IF numPlayers = 4 THEN "Semifinals"
    ELSE IF numPlayers = 8 THEN "Quarterfinals"
    ELSE "Top" \o ToString(numPlayers)

\* `${roundName.split(' ')[0]}-${i + 1}`, 'Final' in the round named Finals
BracketMatchId(roundName, i) ==
    IF roundName = "Finals" THEN "Final" ELSE roundName \o "-" \o ToString(i)

\* bracketSize < 2 || (bracketSize & (bracketSize - 1)) !== 0 throws
RECURSIVE IsPowerOfTwo(_)
IsPowerOfTwo(n) ==
    IF n = 1 THEN TRUE ELSE IF n < 1 \/ n % 2 = 1 THEN FALSE ELSE IsPowerOfTwo(n \div 2)

ValidBracketSize(bracketSize) == bracketSize >= 2 /\ IsPowerOfTwo(bracketSize)

\* Math.log2 of a power of two
RECURSIVE Log2(_)
Log2(n) == IF n <= 1 THEN 0 ELSE 1 + Log2(n \div 2)

\* the loop of getSeedOrder: each d of pls is followed by length - d
RECURSIVE SeedRounds(_, _)
SeedRounds(pls, rounds) ==
    IF rounds = 0 THEN pls
    ELSE LET length == Len(pls) * 2 + 1
             out == [j \in 1 .. 2 * Len(pls) |->
                        IF j % 2 = 1 THEN pls[(j + 1) \div 2]
                        ELSE length - pls[j \div 2]]
         IN SeedRounds(out, rounds - 1)

NaturalOrder(size) == [i \in 1 .. size |-> i]

getSeedOrder(size) ==
    IF size = 2 THEN <<1, 2>> ELSE SeedRounds(<<1, 2>>, Log2(size) - 1)

\* the while loop of generateBracket: one round per pass, the matches of a
\* round two by two the sources of the next round
RECURSIVE BracketRounds(_)
BracketRounds(currentRoundMatchups) ==
    LET n == Len(currentRoundMatchups)
        roundName == getRoundName(n * 2)
        nextRoundName == getRoundName(n)
        roundMatches ==
            [i \in 1 .. n |->
                [matchId |-> BracketMatchId(roundName, i),
                 source_1 |-> currentRoundMatchups[i].p1_source,
                 source_2 |-> currentRoundMatchups[i].p2_source,
                 winnerGoesTo |->
                     IF n > 1 THEN BracketMatchId(nextRoundName, ((i - 1) \div 2) + 1)
                     ELSE NoPosition]]
        nextRoundSources ==
            [j \in 1 .. n \div 2 |->
                [p1_source |-> roundMatches[2 * j - 1].matchId,
                 p2_source |-> roundMatches[2 * j].matchId]]
    IN <<[name |-> roundName, matches |-> roundMatches]>>
       \o (IF n = 1 THEN <<>> ELSE BracketRounds(nextRoundSources))

generateBracket(bracketSize) ==
    LET seedOrder == getSeedOrder(bracketSize)
    IN [size |-> bracketSize,
        rounds |-> BracketRounds([i \in 1 .. Len(seedOrder) \div 2 |->
                                     [p1_source |-> seedOrder[2 * i - 1],
                                      p2_source |-> seedOrder[2 * i]]])]

(***************************************************************************)
(* Match documents.                                                        *)
(***************************************************************************)
NewMatch(oid, matchId, round, p1, p2) ==
    [oid |-> oid, matchId |-> matchId, roundNumber |-> round,
     isTopCutRound |-> FALSE, player1 |-> p1, player2 |-> p2,
     winnerId |-> NoPlayer, isDraw |-> FALSE, reported |-> FALSE,
     bracketPosition |-> NoPosition, nextBracketPosition |-> NoPosition,
     player1StatsBeforeReport |-> NoSnap, player2StatsBeforeReport |-> NoSnap]

\* a bye left open
OpenBye(oid, matchId, round, p) == NewMatch(oid, matchId, round, p, NoPlayer)

\* player2: null, winnerId: player1, reported: true
ByeMatch(oid, matchId, round, p) ==
    [NewMatch(oid, matchId, round, p, NoPlayer) EXCEPT !.winnerId = p, !.reported = TRUE]

IsBye(m) == m.player2 = NoPlayer

MatchesOfRound(ms, r) == SelectSeq(ms, LAMBDA m : m.roundNumber = r)

PlaysIn(m, u) == m.player1 = u \/ m.player2 = u

\* shuffleArray(participants): neighbours are paired, an odd last one gets
\* the bye.  Of the orders that differ only in the order of the matches, in
\* the order of the two players of a match or by renaming players other
\* than the organizer, one is taken.
Ascending(order) == \A i, j \in 1 .. Len(order) : i < j => order[i] < order[j]

ShuffledLists(S) ==
    {o \in Perms(S) :
        \/ Ascending(o)
        \/ /\ Len(o) % 2 = 1
           /\ o[Len(o)] = Organizer
           /\ Ascending(SubSeq(o, 1, Len(o) - 1))}

\* matches of round 1, numbered 001, 002, ... in list order
RECURSIVE Round1Matches(_, _, _)
Round1Matches(order, oid, matchCounter) ==
    IF Len(order) = 0 THEN <<>>
    ELSE IF Len(order) = 1 THEN <<ByeMatch(oid, matchCounter, 1, order[1])>>
    ELSE <<NewMatch(oid, matchCounter, 1, order[1], order[2])>>
         \o Round1Matches(SubSeq(order, 3, Len(order)), oid + 1, matchCounter + 1)

\* $addToSet: { matchesPlayed, opponents } for paired players; the bye
\* recipient gets score: 3, wins: 1, receivedByeInRound: 1 and the match
Round1Stats(st, ms) ==
    [u \in DOMAIN st |->
        LET mine == {i \in 1 .. Len(ms) : PlaysIn(ms[i], u)}
        IN IF mine = {} THEN st[u]
           ELSE LET m == ms[CHOOSE i \in mine : TRUE]
                IN IF IsBye(m)
                   THEN [st[u] EXCEPT !.score = WinPoints, !.wins = 1,
                                      !.receivedByeInRound = 1,
                                      !.matchesPlayed = @ \cup {m.oid}]
                   ELSE [st[u] EXCEPT !.matchesPlayed = @ \cup {m.oid},
                                      !.opponents = @ \cup ({m.player1, m.player2} \ {u})]]

(***************************************************************************)
(* startTournamentWithPairings(tournamentId, organizerId, organizerTag)    *)
(***************************************************************************)
\* a start without the check of the status
StartAnyStatus(actor) ==
    /\ actor = Organizer
    /\ getTournamentParameters(Cardinality(participants)).ok

StartAllowed(actor) ==
    /\ actor = Organizer
    /\ status = "pending"
    /\ getTournamentParameters(Cardinality(participants)).ok

Start(actor) ==
    /\ MayWrite
    /\ IF StartAllowed(actor)
       THEN \E order \in ShuffledLists(participants) :
              LET params == getTournamentParameters(Cardinality(participants))
                  ms == Round1Matches(order, oidCounter + 1, 1)
              IN /\ config' = [config EXCEPT
                                 !.numSwissRounds = params.numSwissRounds,
                                 !.isTwoPhase = params.isTwoPhase,
                                 !.phase1Rounds = params.phase1Rounds,
                                 !.topCutSize = IF config.cutType = "rank"
                                                THEN params.topCutSize ELSE 0,
                                 !.pointsRequired = IF config.cutType = "rank" \/ config.pointsRequired # 0
                                                    THEN @ ELSE params.pointsRequired]
                 /\ status' = "active"
                 /\ currentRound' = 1
                 /\ matches' = matches \o ms
                 /\ oidCounter' = oidCounter + Len(ms)
                 /\ stats' = Round1Stats(stats, ms)
                 /\ txns' = MarkStale(txns)
                 /\ Returned(TRUE)
                 /\ UNCHANGED <<participants, prizeMode, bracket, follow, reporting, standings, users,
                                resets, drops, aborts>>
       ELSE Rejected

(***************************************************************************)
(* startTournament(tournamentId, numSwissRounds, topCutSize): no           *)
(* transaction, no check of the caller                                     *)
(***************************************************************************)
MinPlayersPlain == 2

\* tournament.config = { numSwissRounds, topCutSize }: the other paths of
\* config are unset
PlainConfig(numSwissRounds, topCutSize) ==
    [numSwissRounds |-> numSwissRounds, topCutSize |-> topCutSize, cutType |-> "rank",
     pointsRequired |-> 0, isTwoPhase |-> FALSE, phase1Rounds |-> 0]

\* the tournament is saved as active in round 1; the first PlayerStats row
\* the loop saves is a second row of a participant, which the unique index
\* on (tournament, userId) refuses, so no match is created
startTournament(numSwissRounds, topCutSize) ==
    IF status = "pending" /\ Cardinality(participants) >= MinPlayersPlain
    THEN /\ MayWrite
         /\ config' = PlainConfig(numSwissRounds, topCutSize)
         /\ status' = "active"
         /\ currentRound' = 1
         /\ txns' = MarkStale(txns)
         /\ Returned(FALSE)
         /\ UNCHANGED <<participants, prizeMode, bracket, follow, reporting, standings, matches,
                        oidCounter, stats, users, resets, drops, aborts>>
    ELSE Rejected

(***************************************************************************)
(* reportMatch(tournamentId, matchId, winnerId, ..., drawOpponentId, ...,  *)
(*             reporterId, ...)                                            *)
(***************************************************************************)
First(S) == CHOOSE i \in S : \A j \in S : i <= j

\* Match.findOne({ tournament, matchId })
FindMatch(ms, matchId) == {i \in 1 .. Len(ms) : ms[i].matchId = matchId}

Snap(ps) ==
    [set |-> TRUE, wins |-> ps.wins, losses |-> ps.losses,
     draws |-> ps.draws, score |-> ps.score]

\* a report without the check of match.reported
ReportAgain(m, winnerId, drawOpponentId, reporterId) ==
    /\ status = "active"
    /\ m.player1 # NoPlayer /\ m.player2 # NoPlayer
    /\ reporterId \in {m.player1, m.player2, Organizer}
    /\ IF drawOpponentId # NoPlayer
       THEN \/ winnerId = m.player1 /\ drawOpponentId = m.player2
            \/ winnerId = m.player2 /\ drawOpponentId = m.player1
       ELSE winnerId \in {m.player1, m.player2}
    /\ m.player1 \in DOMAIN stats /\ m.player2 \in DOMAIN stats

ReportAllowed(m, winnerId, drawOpponentId, reporterId) ==
    /\ status = "active"
    /\ ~m.reported
    /\ ~(m.player2 = NoPlayer /\ m.player1 = winnerId)
    /\ m.player1 # NoPlayer /\ m.player2 # NoPlayer
    /\ reporterId \in {m.player1, m.player2, Organizer}
    /\ IF drawOpponentId # NoPlayer
       THEN \/ winnerId = m.player1 /\ drawOpponentId = m.player2
            \/ winnerId = m.player2 /\ drawOpponentId = m.player1
       ELSE winnerId \in {m.player1, m.player2}
    /\ m.player1 \in DOMAIN stats /\ m.player2 \in DOMAIN stats

\* a draw that keeps the reporting player as winnerId
DrawKeepsWinner(m, st, winnerId, isDraw) ==
    [m EXCEPT !.isDraw = isDraw,
              !.winnerId = winnerId,
              !.player1StatsBeforeReport = Snap(st[m.player1]),
              !.player2StatsBeforeReport = Snap(st[m.player2]),
              !.reported = TRUE]

\* the match document as reportMatch saves it
ReportedMatch(m, st, winnerId, isDraw) ==
    [m EXCEPT !.isDraw = isDraw,
              !.winnerId = IF isDraw THEN NoPlayer ELSE winnerId,
              !.player1StatsBeforeReport = Snap(st[m.player1]),
              !.player2StatsBeforeReport = Snap(st[m.player2]),
              !.reported = TRUE]

\* $inc of the result, then $addToSet: { matchesPlayed, opponents }
ReportedStats(st, m, winnerId, isDraw) ==
    [u \in DOMAIN st |->
        IF u \notin {m.player1, m.player2} THEN st[u]
        ELSE LET other == IF u = m.player1 THEN m.player2 ELSE m.player1
                 scored == IF isDraw
                           THEN [st[u] EXCEPT !.score = @ + DrawPoints, !.draws = @ + 1]
                           ELSE IF u = winnerId
                           THEN [st[u] EXCEPT !.score = @ + WinPoints, !.wins = @ + 1]
                           ELSE [st[u] EXCEPT !.losses = @ + 1]
             IN [scored EXCEPT !.matchesPlayed = @ \cup {m.oid},
                               !.opponents = @ \cup {other}]]

Report(matchId, winnerId, drawOpponentId, reporterId) ==
    LET found == FindMatch(matches, matchId)
    IN IF found # {} /\ ReportAllowed(matches[First(found)], winnerId, drawOpponentId, reporterId)
       THEN LET i == First(found)
                isDraw == drawOpponentId # NoPlayer
            IN /\ MayWrite
               /\ matches' = [matches EXCEPT ![i] = ReportedMatch(@, stats, winnerId, isDraw)]
               /\ stats' = ReportedStats(stats, matches[i], winnerId, isDraw)
               /\ txns' = MarkStale(txns)
               /\ Returned(TRUE)
               /\ UNCHANGED <<status, currentRound, participants, config, prizeMode, bracket, follow, reporting,
                              standings, oidCounter, users, resets, drops, aborts>>
       ELSE Rejected

(***************************************************************************)
(* reportMatch as a transaction next to other reportMatch transactions:    *)
(* it reads the match and the two PlayerStats rows, saves the match and    *)
(* updates the two rows with $inc and $addToSet.                           *)
(***************************************************************************)
\* every report writes the same document
AlwaysShares(m1, m2) == TRUE

\* reports that never conflict
NeverShares(m1, m2) == FALSE

\* two reports write a common document: the match or the row of a player
SharesDocument(m1, m2) ==
    \/ m1.oid = m2.oid
    \/ {m1.player1, m1.player2} \cap {m2.player1, m2.player2} # {}

ReportBegin(s, matchId, winnerId, drawOpponentId, reporterId) ==
    LET found == FindMatch(matches, matchId)
    IN /\ reporting[s].op = "none"
       /\ IF found # {} /\ ReportAllowed(matches[First(found)], winnerId, drawOpponentId, reporterId)
          THEN /\ reporting' = [reporting EXCEPT ![s] =
                                  [op |-> "report", match |-> matches[First(found)],
                                   stats |-> stats, winnerId |-> winnerId,
                                   isDraw |-> drawOpponentId # NoPlayer,
                                   stale |-> FALSE, others |-> {}]]
               /\ UNCHANGED <<status, currentRound, participants, config, prizeMode, bracket,
                              follow, standings, matches, oidCounter, stats, users, txns,
                              failed, resets, drops, aborts>>
          ELSE Rejected

\* commitTransaction: a write conflict aborts; otherwise the match is saved
\* as it was read, with the snapshots of the rows as they were read, and
\* the rows are updated in place
ReportCommit(s) ==
    /\ reporting[s].op = "report"
    /\ LET t == reporting[s]
           at == {i \in 1 .. Len(matches) : matches[i].oid = t.match.oid}
       IN IF t.stale \/ at = {}
          THEN /\ reporting' = [reporting EXCEPT ![s] = NoReport]
               /\ Returned(FALSE)
               /\ UNCHANGED <<status, currentRound, participants, config, prizeMode, bracket,
                              follow, standings, matches, oidCounter, stats, users, txns,
                              resets, drops, aborts>>
          ELSE /\ matches' = [matches EXCEPT ![First(at)] =
                                 ReportedMatch(t.match, t.stats, t.winnerId, t.isDraw)]
               /\ stats' = ReportedStats(stats, t.match, t.winnerId, t.isDraw)
               /\ reporting' =
                     [r \in Slots |->
                        IF r = s \/ reporting[r].op = "none" THEN NoReport
                        ELSE [reporting[r] EXCEPT
                                !.stale = @ \/ SharesDocument(reporting[r].match, t.match),
                                !.others = @ \cup {t.match.oid}]]
               /\ txns' = MarkStale(txns)
               /\ Returned(TRUE)
               /\ UNCHANGED <<status, currentRound, participants, config, prizeMode, bracket,
                              follow, standings, oidCounter, users, resets, drops, aborts>>

(***************************************************************************)
(* dropPlayer(tournamentId, playerId, organizerId)                         *)
(***************************************************************************)
\* Match.findOne({ roundNumber: currentRound, $or: [player1, player2] })
CurrentMatchOf(playerId) ==
    {i \in 1 .. Len(matches) :
        matches[i].roundNumber = currentRound /\ PlaysIn(matches[i], playerId)}

DropAllowed(playerId, organizerId) ==
    /\ organizerId = Organizer
    /\ status = "active"
    /\ playerId \in DOMAIN stats
    /\ stats[playerId].activeInTournament
    /\ LET cur == CurrentMatchOf(playerId)
       IN ~(cur # {} /\ matches[First(cur)].reported)

\* the points of a win without the win
PointsOnly(ps, playerId) == [ps EXCEPT !.score = @ + WinPoints]

\* the opponent gets nothing
NoAward(ps, playerId) == ps

\* the opponent of the dropped player wins by default
DropAward(ps, playerId) ==
    [ps EXCEPT !.score = @ + WinPoints, !.wins = @ + 1,
               !.opponents = @ \cup {playerId}]

DropPlayer(playerId, organizerId) ==
    IF DropAllowed(playerId, organizerId)
    THEN LET cur == CurrentMatchOf(playerId)
             dropped == [stats EXCEPT ![playerId].activeInTournament = FALSE]
         IN /\ MayWrite
            /\ drops < MaxInterventions
            /\ participants' = participants \ {playerId}
            /\ IF cur = {}
               THEN /\ stats' = dropped
                    /\ UNCHANGED matches
               ELSE LET i == First(cur)
                        m == matches[i]
                        opponent == IF m.player1 = playerId THEN m.player2 ELSE m.player1
                    IN /\ matches' = [matches EXCEPT ![i].winnerId = IF opponent # NoPlayer THEN opponent ELSE @,
                                                     ![i].reported = TRUE]
                       /\ stats' = IF opponent # NoPlayer /\ opponent \in DOMAIN stats
                                   THEN [dropped EXCEPT ![opponent] = DropAward(@, playerId)]
                                   ELSE dropped
            /\ drops' = drops + 1
            /\ txns' = MarkStale(txns)
            /\ Returned(TRUE)
            /\ UNCHANGED <<status, currentRound, config, prizeMode, bracket, follow, reporting, standings,
                           oidCounter, users, resets, aborts>>
    ELSE Rejected

(***************************************************************************)
(* resetRound(tournamentId, roundNumber): no transaction, every save is    *)
(* written at once                                                         *)
(***************************************************************************)
\* wins, losses, draws and score from the snapshot, the match and the
\* opponent taken out of the lists
Restored(ps, snap, oid, opponent) ==
    [ps EXCEPT !.wins = snap.wins, !.losses = snap.losses,
               !.draws = snap.draws, !.score = snap.score,
               !.matchesPlayed = @ \ {oid},
               !.opponents = @ \ {opponent}]

\* opponents.filter((o) => o !== match.player2.userId) reads userId of null
\* as soon as the list has an element
FilterThrows(ps, opponent) == opponent = NoPlayer /\ ps.opponents # {}

\* one pass of the loop over the matches of the round, from position k on;
\* a TypeError ends the call and keeps what was saved before it
RECURSIVE ResetMatches(_, _, _, _)
ResetMatches(st, ms, idx, k) ==
    IF k > Len(idx) THEN [stats |-> st, matches |-> ms, thrown |-> FALSE]
    ELSE LET i == idx[k]
             m == ms[i]
             has1 == m.player1 # NoPlayer /\ m.player1 \in DOMAIN st
             throws1 == has1 /\ FilterThrows(st[m.player1], m.player2)
             st1 == IF has1
                    THEN [st EXCEPT ![m.player1] =
                            Restored(@, m.player1StatsBeforeReport, m.oid, m.player2)]
                    ELSE st
             has2 == m.player2 # NoPlayer /\ m.player2 \in DOMAIN st1
             throws2 == has2 /\ FilterThrows(st1[m.player2], m.player1)
             st2 == IF has2
                    THEN [st1 EXCEPT ![m.player2] =
                            Restored(@, m.player2StatsBeforeReport, m.oid, m.player1)]
                    ELSE st1
             reset == [m EXCEPT !.reported = FALSE, !.winnerId = NoPlayer, !.isDraw = FALSE]
         IN IF ~m.reported THEN ResetMatches(st, ms, idx, k + 1)
            ELSE IF throws1 THEN [stats |-> st, matches |-> ms, thrown |-> TRUE]
            ELSE IF throws2 THEN [stats |-> st1, matches |-> ms, thrown |-> TRUE]
            ELSE ResetMatches(st2, [ms EXCEPT ![i] = reset], idx, k + 1)

RoundIndexes(ms, r) ==
    LET S == {i \in 1 .. Len(ms) : ms[i].roundNumber = r}
    IN CHOOSE idx \in Perms(S) : \A a, b \in 1 .. Len(idx) : a < b => idx[a] < idx[b]

\* calculateTiebreakers: its tie loop reads the undeclared name
\* allPlayersStatsForTournament, a ReferenceError once there are two rows
calculateTiebreakersThrows(st) == Cardinality(DOMAIN st) >= 2

\* with a single row no opponent is in the map: both tiebreakers are 0
calculateTiebreakers(st) == [u \in DOMAIN st |-> [st[u] EXCEPT !.owp = FZero, !.oowp = FZero]]

\* a reset that leaves the matches of the later rounds in place
KeepLaterRounds(ms, roundNumber) == ms

\* Match.deleteMany({ roundNumber: { $gt: roundNumber } })
DeleteLaterRounds(ms, roundNumber) ==
    SelectSeq(ms, LAMBDA m : ~(m.roundNumber > roundNumber))

\* matches[0].isTopCutRound: every row with an eliminationStage other than
\* null is set to activeInTournament: true, eliminationStage: null
Reactivated(st, ms, roundNumber) ==
    LET found == MatchesOfRound(ms, roundNumber)
    IN IF Len(found) > 0 /\ found[1].isTopCutRound
       THEN [u \in DOMAIN st |->
               IF st[u].eliminationStage # ""
               THEN [st[u] EXCEPT !.activeInTournament = TRUE, !.eliminationStage = ""]
               ELSE st[u]]
       ELSE st

ResetAllowed(roundNumber) ==
    /\ status = "active"
    /\ ~(roundNumber > currentRound)

ResetRound(roundNumber) ==
    IF ResetAllowed(roundNumber)
    THEN \E loop \in {ResetMatches(stats, matches, RoundIndexes(matches, roundNumber), 1)} :
         LET tie == ~loop.thrown /\ roundNumber = currentRound
             thrown == loop.thrown \/ (tie /\ calculateTiebreakersThrows(loop.stats))
             past == ~thrown /\ roundNumber < currentRound
         IN /\ MayWrite
            /\ resets < MaxInterventions
            /\ stats' = IF tie /\ ~thrown THEN calculateTiebreakers(loop.stats)
                        ELSE IF past THEN Reactivated(loop.stats, matches, roundNumber)
                        ELSE loop.stats
            /\ matches' = IF past
                          THEN DeleteLaterRounds(loop.matches, roundNumber)
                          ELSE loop.matches
            /\ currentRound' = IF past THEN roundNumber ELSE currentRound
            /\ resets' = resets + 1
            /\ txns' = MarkStale(txns)
            /\ Returned(~thrown)
            /\ UNCHANGED <<status, participants, config, prizeMode, bracket, follow, reporting, standings,
                           oidCounter, users, drops, aborts>>
    ELSE Rejected

(***************************************************************************)
(* calculateStandings(tournamentId, allPlayersStatsForTournament, session) *)
(* of the /validate command                                                *)
(***************************************************************************)
MinWinPerc == <<1, 4>>
DroppedCap == <<3, 4>>
FullCap == <<1, 1>>

Played(ps) == ps.wins + ps.losses + ps.draws

\* playerStat.tiebreakersFrozen of a fetched row: undefined where the
\* document holds no such path
Frozen(ps) == "tiebreakersFrozen" \in DOMAIN ps /\ ps.tiebreakersFrozen

\* (wins - byes + draws * 0.5) / actualMatches, 0 without actual matches
BaseWinPerc(ps) ==
    LET byes == IF ps.receivedByeInRound > 0 THEN 1 ELSE 0
        actualMatches == Played(ps) - byes
    IN IF actualMatches > 0
       THEN Frac(2 * (ps.wins - byes) + ps.draws, 2 * actualMatches)
       ELSE FZero

\* a win percentage without the floor of 25%
UnflooredWinPerc(ps) ==
    FMin(BaseWinPerc(ps),
         IF ~ps.activeInTournament /\ ~Frozen(ps) THEN DroppedCap ELSE FullCap)

\* capped at 75% for a dropped player, at 100% otherwise, never below 25%
FinalWinPerc(ps) ==
    FMax(MinWinPerc,
         FMin(BaseWinPerc(ps),
              IF ~ps.activeInTournament /\ ~Frozen(ps) THEN DroppedCap ELSE FullCap))

\* the mean over the unique opponents; an opponent without a row adds 0
OWP(st, u) ==
    LET opp == st[u].opponents
    IN IF opp = {} THEN FZero
       ELSE FDivInt(FSum(opp \cap DOMAIN st, [o \in DOMAIN st |-> FinalWinPerc(st[o])]),
                    Cardinality(opp))

OOWP(st, u) ==
    LET opp == st[u].opponents
    IN IF opp = {} THEN FZero
       ELSE FDivInt(FSum(opp \cap DOMAIN st, [o \in DOMAIN st |-> st[o].owp]),
                    Cardinality(opp))

Tiebreakers(st) ==
    LET st1 == [u \in DOMAIN st |->
                  IF Frozen(st[u]) THEN st[u] ELSE [st[u] EXCEPT !.owp = OWP(st, u)]]
    IN [u \in DOMAIN st |->
          IF Frozen(st1[u]) THEN st1[u] ELSE [st1[u] EXCEPT !.oowp = OOWP(st1, u)]]

\* the first sort: matches played, score, OWP, OOWP, all descending
Before4(a, b) ==
    \/ Played(a) > Played(b)
    \/ /\ Played(a) = Played(b)
       /\ \/ a.score > b.score
          \/ /\ a.score = b.score
             /\ \/ FLess(b.owp, a.owp)
                \/ a.owp = b.owp /\ FLess(b.oowp, a.oowp)

SameKey3(a, b) == a.score = b.score /\ a.owp = b.owp /\ a.oowp = b.oowp

\* a tie group: a run of the sorted list with equal score, OWP and OOWP
SameGroup(st, x, y) ==
    /\ SameKey3(st[x], st[y])
    /\ \A z \in DOMAIN st :
          (\/ Before4(st[x], st[z]) /\ Before4(st[z], st[y])
           \/ Before4(st[y], st[z]) /\ Before4(st[z], st[x]))
          => SameKey3(st[x], st[z])

GroupOf(st, x) == {y \in DOMAIN st : SameGroup(st, x, y)}

\* head to head: x won more of the matches between the two than y
WinsOver(ms, x, y) ==
    Cardinality({i \in 1 .. Len(ms) :
        /\ ms[i].player1 # NoPlayer /\ ms[i].player2 # NoPlayer
        /\ {ms[i].player1, ms[i].player2} = {x, y}
        /\ ms[i].winnerId = x})

Beats(ms, x, y) == WinsOver(ms, x, y) > WinsOver(ms, y, x)

Orderable(ms, G) ==
    \E p \in Perms(G) : \A i, j \in 1 .. Len(p) : i < j => ~Beats(ms, p[j], p[i])

\* the orders the two sorts can leave: outside a tie group the first sort
\* decides, inside it the head to head where it can be honoured, and
\* Math.random() - 0.5 for the rest
MayPrecede(st, ms, x, y) ==
    IF SameGroup(st, x, y)
    THEN ~Beats(ms, y, x) \/ ~Orderable(ms, GroupOf(st, x))
    ELSE Before4(st[x], st[y])

\* the orders of the rows R in which every row may precede all rows after it
RECURSIVE OrdersOf(_, _, _)
OrdersOf(st, ms, R) ==
    IF R = {} THEN {<<>>}
    ELSE UNION {{<<x>> \o p : p \in OrdersOf(st, ms, R \ {x})} :
                  x \in {x \in R : \A y \in R \ {x} : MayPrecede(st, ms, x, y)}}

PossibleStandings(st, ms) == OrdersOf(st, ms, DOMAIN st)

(***************************************************************************)
(* generateNextSwissRoundPairings, findSwissPairings and backtrackPairings *)
(* of the /validate command                                                *)
(***************************************************************************)
\* the bye sort: score, OWP, OOWP, all ascending
Lower3(a, b) ==
    \/ a.score < b.score
    \/ /\ a.score = b.score
       /\ \/ FLess(a.owp, b.owp)
          \/ a.owp = b.owp /\ FLess(a.oowp, b.oowp)

\* a bye for the first of the highest instead of the lowest
ByeToHighest(st, sorted) ==
    LET available == SelectSeq(sorted, LAMBDA u : st[u].activeInTournament)
        fresh == SelectSeq(available, LAMBDA u : st[u].receivedByeInRound = 0)
        potential == IF Len(fresh) = 0 THEN available ELSE fresh
        highest == {i \in 1 .. Len(potential) :
                      \A j \in 1 .. Len(potential) : ~Lower3(st[potential[i]], st[potential[j]])}
    IN IF Len(available) % 2 = 0 THEN NoPlayer ELSE potential[First(highest)]

\* with an odd number of active players: the first of the lowest among those
\* without a bye so far, among all of them if every one had a bye
ByeRecipient(st, sorted) ==
    LET available == SelectSeq(sorted, LAMBDA u : st[u].activeInTournament)
        fresh == SelectSeq(available, LAMBDA u : st[u].receivedByeInRound = 0)
        potential == IF Len(fresh) = 0 THEN available ELSE fresh
        lowest == {i \in 1 .. Len(potential) :
                     \A j \in 1 .. Len(potential) : ~Lower3(st[potential[j]], st[potential[i]])}
    IN IF Len(available) % 2 = 0 THEN NoPlayer ELSE potential[First(lowest)]

\* the opponents the pairing check consults: opponentsPhase1 and
\* opponentsPhase2 are no paths of the PlayerStats schema and read as []
OpponentsInCurrentPhase(st, u) == IF config.isTwoPhase THEN {} ELSE st[u].opponents

\* score groups in descending order, each one shuffled
OrderedPlayers(st, S) ==
    {o \in Perms(S) : \A i, j \in 1 .. Len(o) : i < j => st[o[i]].score >= st[o[j]].score}

\* a search that gives back what it has when it finds no complete pairing
PartialPairings == [ok |-> TRUE, pairs |-> <<>>]

\* return null
NoPairings == [ok |-> FALSE, pairs |-> <<>>]

RECURSIVE backtrackPairings(_, _)
RECURSIVE TryPartner(_, _, _)
\* the first remaining player with the partner at position i, then i + 1, ...
TryPartner(remaining, st, i) ==
    IF i > Len(remaining) THEN NoPairings
    ELSE LET player1 == remaining[1]
             player2 == remaining[i]
         IN IF player2 \notin OpponentsInCurrentPhase(st, player1)
            THEN LET rest == backtrackPairings(
                                SelectSeq(remaining, LAMBDA u : u # player1 /\ u # player2), st)
                 IN IF rest.ok
                    THEN [ok |-> TRUE, pairs |-> <<<<player1, player2>>>> \o rest.pairs]
                    ELSE TryPartner(remaining, st, i + 1)
            ELSE TryPartner(remaining, st, i + 1)

backtrackPairings(remaining, st) ==
    IF Len(remaining) = 0 THEN [ok |-> TRUE, pairs |-> <<>>]
    ELSE IF Len(remaining) % 2 # 0 THEN NoPairings
    ELSE TryPartner(remaining, st, 2)

findSwissPairings(st, S) == {backtrackPairings(o, st) : o \in OrderedPlayers(st, S)}

\* the pairings with the lower id first, in ascending order: the matches of a
\* round are taken up to their order and the order of their two players
SortedPairs(pairs) ==
    LET P == {IF pairs[i][1] < pairs[i][2] THEN pairs[i] ELSE <<pairs[i][2], pairs[i][1]>> :
                 i \in 1 .. Len(pairs)}
    IN CHOOSE q \in Perms(P) : \A i, j \in 1 .. Len(q) : i < j => q[i][1] < q[j][1]

\* the bye match first, then the regular matches, numbered on from
\* Match.countDocuments
\* a numbering that counts the bye and the first pair as one
ByeNotCounted(bye, q, oid, matchCounter, round) ==
    LET off == IF bye # NoPlayer THEN 1 ELSE 0
    IN (IF bye # NoPlayer THEN <<ByeMatch(oid + 1, matchCounter + 1, round, bye)>> ELSE <<>>)
       \o [i \in 1 .. Len(q) |->
             NewMatch(oid + off + i, matchCounter + i, round, q[i][1], q[i][2])]

NewRoundMatches(bye, q, oid, matchCounter, round) ==
    LET off == IF bye # NoPlayer THEN 1 ELSE 0
    IN (IF bye # NoPlayer THEN <<ByeMatch(oid + 1, matchCounter + 1, round, bye)>> ELSE <<>>)
       \o [i \in 1 .. Len(q) |->
             NewMatch(oid + off + i, matchCounter + off + i, round, q[i][1], q[i][2])]

\* $push: { matchesPlayed }, $addToSet: { opponents }; for the bye
\* $inc: { score: 3, wins: 1 }, $set: { receivedByeInRound }
PairedStats(st, new, round) ==
    [u \in DOMAIN st |->
        LET mine == {i \in 1 .. Len(new) : PlaysIn(new[i], u)}
        IN IF mine = {} THEN st[u]
           ELSE LET m == new[First(mine)]
                IN IF IsBye(m)
                   THEN [st[u] EXCEPT !.score = @ + WinPoints, !.wins = @ + 1,
                                      !.receivedByeInRound = round,
                                      !.matchesPlayed = @ \cup {m.oid}]
                   ELSE [st[u] EXCEPT !.matchesPlayed = @ \cup {m.oid},
                                      !.opponents = @ \cup ({m.player1, m.player2} \ {u})]]

\* $unset: { player1StatsBeforeReport, player2StatsBeforeReport } on the
\* reported matches of the validated round
ClearSnapshots(ms, round) ==
    [i \in 1 .. Len(ms) |->
        IF ms[i].roundNumber = round /\ ms[i].reported
        THEN [ms[i] EXCEPT !.player1StatsBeforeReport = NoSnap,
                           !.player2StatsBeforeReport = NoSnap]
        ELSE ms[i]]

(***************************************************************************)
(* finishTournament(interaction, tournament, allPlayerStats, session) of   *)
(* the /validate command                                                   *)
(***************************************************************************)
\* PRIZE_PROPORTIONS, in parts of 10000, per band of ranks
PrizeBand(lo, hi, part) == [lo |-> lo, hi |-> hi, part |-> part]

PRIZE_PROPORTIONS(key) ==
    CASE key = "top4_no_cut" ->
            <<PrizeBand(1, 1, 5000), PrizeBand(2, 2, 2500), PrizeBand(3, 3, 1250),
              PrizeBand(4, 4, 1250)>>
      [] key = "top4_cut" ->
            <<PrizeBand(1, 1, 5000), PrizeBand(2, 2, 2500), PrizeBand(3, 3, 1250),
              PrizeBand(4, 4, 1250)>>
      [] key = "top8_cut" ->
            <<PrizeBand(1, 1, 4000), PrizeBand(2, 2, 2000), PrizeBand(3, 4, 1000),
              PrizeBand(5, 8, 500)>>
      [] key = "top16_cut" ->
            <<PrizeBand(1, 1, 3500), PrizeBand(2, 2, 1800), PrizeBand(3, 4, 850),
              PrizeBand(5, 8, 400), PrizeBand(9, 16, 200)>>
      [] key = "top32_cut" ->
            <<PrizeBand(1, 1, 3000), PrizeBand(2, 2, 1500), PrizeBand(3, 4, 750),
              PrizeBand(5, 8, 300), PrizeBand(9, 16, 150), PrizeBand(17, 32, 75)>>

\* let prizeBracket = 1; while (prizeBracket * 2 <= numQualified) prizeBracket *= 2
RECURSIVE PrizeBracket(_, _)
PrizeBracket(prizeBracket, numQualified) ==
    IF prizeBracket * 2 <= numQualified
    THEN PrizeBracket(prizeBracket * 2, numQualified)
    ELSE prizeBracket

ProportionsKey(prizeBracket) ==
    IF prizeBracket >= 32 THEN "top32_cut"
    ELSE IF prizeBracket >= 16 THEN "top16_cut"
    ELSE IF prizeBracket >= 8 THEN "top8_cut"
    ELSE IF prizeBracket >= 4 THEN "top4_cut"
    ELSE "top4_no_cut"

NumQualified(sorted, st) ==
    IF config.cutType = "points"
    THEN Cardinality({i \in 1 .. Len(sorted) : st[sorted[i]].score >= config.pointsRequired})
    ELSE config.topCutSize

\* what a final rank receives from its band: floor(pool * proportion) shared
\* out in whole Aura among the ranks of the band that are occupied
BandPrize(pool, band, n) ==
    LET prizeForRankRange == (pool * band.part) \div 10000
        occupied == {r \in 1 .. n : r >= band.lo /\ r <= band.hi}
    IN IF prizeForRankRange <= 0 \/ occupied = {} THEN 0
       ELSE prizeForRankRange \div Cardinality(occupied)

\* prize of every final rank 1 .. n in spread mode, the remainder to rank 1
SpreadPrizes(pool, n, numQualified) ==
    LET bands == PRIZE_PROPORTIONS(ProportionsKey(PrizeBracket(1, numQualified)))
        base == [r \in 1 .. n |->
                    SumOver({b \in 1 .. Len(bands) : r >= bands[b].lo /\ r <= bands[b].hi},
                            [b \in 1 .. Len(bands) |-> BandPrize(pool, bands[b], n)])]
        remainder == pool - SumOver(1 .. n, base)
    IN [r \in 1 .. n |-> IF r = 1 /\ remainder > 0 THEN base[r] + remainder ELSE base[r]]

PrizeByRank(pool, n, numQualified) ==
    IF pool <= 0 THEN [r \in 1 .. n |-> 0]
    ELSE IF prizeMode = "all" THEN [r \in 1 .. n |-> IF r = 1 THEN pool ELSE 0]
    ELSE IF prizeMode = "spread" THEN SpreadPrizes(pool, n, numQualified)
    ELSE [r \in 1 .. n |-> 0]

RankIn(sorted, u) == First({i \in 1 .. Len(sorted) : sorted[i] = u})

\* the users after the prizes and the lifetime increments of every row
FinishedUsers(us, sorted, st, pool) ==
    LET prizes == PrizeByRank(pool, Len(sorted), NumQualified(sorted, st))
    IN [u \in DOMAIN us |->
          IF u \notin Range(sorted) THEN us[u]
          ELSE LET r == RankIn(sorted, u)
               IN [us[u] EXCEPT
                     !.elo = @ + prizes[r],
                     !.tournamentWins = @ + (IF r = 1 /\ prizes[r] > 0 THEN 1 ELSE 0),
                     !.tournamentParticipations = @ + 1,
                     !.totalWins = @ + st[u].wins,
                     !.totalLosses = @ + st[u].losses]]

\* tournament.standings: rank, wins, ties, losses, score, owp, oowp, in the
\* order of the standings; execute has set finalRank = index + 1 on every row
FinalStandings(sorted, st) ==
    [i \in 1 .. Len(sorted) |->
        [rank |-> i, wins |-> st[sorted[i]].wins, ties |-> st[sorted[i]].draws,
         losses |-> st[sorted[i]].losses, score |-> st[sorted[i]].score,
         owp |-> st[sorted[i]].owp, oowp |-> st[sorted[i]].oowp]]

(***************************************************************************)
(* The top cut of the /validate command: generateTopCutPairings and the    *)
(* top-cut block of execute                                                *)
(***************************************************************************)
\* let bracketSize = 2; while (bracketSize < players.length) bracketSize *= 2
RECURSIVE BracketSizeFor(_, _)
BracketSizeFor(bracketSize, n) ==
    IF bracketSize < n THEN BracketSizeFor(bracketSize * 2, n) ELSE bracketSize

\* a match of the top cut that is left open without a second player
OpenCutMatch(oid, matchId, round, p1, p2, pos, next) ==
    [NewMatch(oid, matchId, round, p1, p2) EXCEPT
        !.isTopCutRound = TRUE,
        !.bracketPosition = pos,
        !.nextBracketPosition = next]

\* a match of the top cut; without a second player it is stored as won
CutMatch(oid, matchId, round, p1, p2, pos, next) ==
    [NewMatch(oid, matchId, round, p1, p2) EXCEPT
        !.isTopCutRound = TRUE,
        !.bracketPosition = pos,
        !.nextBracketPosition = next,
        !.winnerId = IF p2 = NoPlayer THEN p1 ELSE NoPlayer,
        !.reported = (p2 = NoPlayer)]

\* the first round of the bracket: players by seed; a seed nobody holds
\* leaves the other player of the match with a bye
FirstCutMatches(players, oid, matchCounter, round) ==
    LET first == generateBracket(BracketSizeFor(2, Len(players))).rounds[1].matches
        at(k) == IF k <= Len(players) THEN players[k] ELSE NoPlayer
    IN [i \in 1 .. Len(first) |->
          LET p1 == at(first[i].source_1)
              p2 == at(first[i].source_2)
          IN CutMatch(oid + i, matchCounter + i, round,
                      IF p1 # NoPlayer THEN p1 ELSE p2,
                      IF p1 # NoPlayer THEN p2 ELSE NoPlayer,
                      first[i].matchId, first[i].winnerGoesTo)]

\* a later round: the winners are collected at the nextBracketPosition of
\* the match they won; a position that holds two of them becomes a match,
\* numbered in the order of the better seed and stored in the order of the
\* positions
NextCutMatches(st, ms, winners, oid, matchCounter, round) ==
    LET prev == SelectSeq(ms, LAMBDA m : m.roundNumber = round - 1 /\ m.isTopCutRound)
        next(w) == LET I == {i \in 1 .. Len(prev) : prev[i].winnerId = w}
                   IN IF I = {} THEN NoPosition ELSE prev[First(I)].nextBracketPosition
        at(pos) == {w \in winners : next(w) = pos}
        rounds == generateBracket(config.topCutSize).rounds
        R == {r \in 1 .. Len(rounds) :
                \E i \in 1 .. Len(rounds[r].matches) :
                   at(rounds[r].matches[i].matchId) # {}}
    IN IF R = {} THEN <<>>
       ELSE LET bm == rounds[First(R)].matches
                full == SelectSeq([i \in 1 .. Len(bm) |-> i],
                                  LAMBDA i : Cardinality(at(bm[i].matchId)) = 2)
                best(i) == CHOOSE w \in at(bm[i].matchId) :
                              \A v \in at(bm[i].matchId) :
                                 st[w].initialSeed <= st[v].initialSeed
                num(i) == 1 + Cardinality({j \in Range(full) :
                                 st[best(j)].initialSeed < st[best(i)].initialSeed})
            IN [k \in 1 .. Len(full) |->
                  CutMatch(oid + k, matchCounter + num(full[k]), round,
                           best(full[k]),
                           CHOOSE v \in at(bm[full[k]].matchId) : v # best(full[k]),
                           bm[full[k]].matchId, bm[full[k]].winnerGoesTo)]

\* $push: { matchesPlayed }; for a bye $inc: { score: 3, wins: 1 }
CutStats(st, new) ==
    [u \in DOMAIN st |->
        LET mine == {i \in 1 .. Len(new) : PlaysIn(new[i], u)}
        IN IF mine = {} THEN st[u]
           ELSE LET m == new[First(mine)]
                IN IF IsBye(m)
                   THEN [st[u] EXCEPT !.score = @ + WinPoints, !.wins = @ + 1,
                                      !.matchesPlayed = @ \cup {m.oid}]
                   ELSE [st[u] EXCEPT !.matchesPlayed = @ \cup {m.oid}]]

\* the stage of a round of n players: 'SF', 'QF', `Top${n}`
StageName(n) ==
    IF n = 4 THEN "SF" ELSE IF n = 8 THEN "QF" ELSE "Top" \o ToString(n)

\* the stage a loser at the bracket position is given: none in the Final
StageOf(pos) ==
    LET rounds == generateBracket(config.topCutSize).rounds
        R == {r \in 1 .. Len(rounds) :
                \E i \in 1 .. Len(rounds[r].matches) : rounds[r].matches[i].matchId = pos}
    IN IF pos = NoPosition \/ R = {} \/ pos = "Final" THEN ""
       ELSE StageName(2 * Len(rounds[First(R)].matches))

\* eliminationStage of the loser of every top-cut match of the round that
\* has a winner and two players
Eliminated(st, cur) ==
    [u \in DOMAIN st |->
        LET lost == {i \in 1 .. Len(cur) :
                        /\ cur[i].isTopCutRound /\ cur[i].reported
                        /\ cur[i].winnerId # NoPlayer /\ cur[i].player2 # NoPlayer
                        /\ PlaysIn(cur[i], u) /\ cur[i].winnerId # u
                        /\ StageOf(cur[i].bracketPosition) # ""}
        IN IF lost = {} THEN st[u]
           ELSE [st[u] EXCEPT !.eliminationStage =
                    StageOf(cur[CHOOSE i \in lost : \A j \in lost : j <= i].bracketPosition)]]

\* the runner-up is looked for with finalMatch.player2.userId, a TypeError
\* on a bye as soon as a row other than the winner's is looked at
RunnerUpThrows(st, finalMatch) ==
    /\ finalMatch.winnerId # NoPlayer
    /\ finalMatch.player2 = NoPlayer
    /\ DOMAIN st \ {finalMatch.player1} # {}

\* the final ranks: winner and runner-up of the first reported top-cut match
\* of the round, then from rank 3 on the rows by elimination stage and seed,
\* the other seeded rows by seed, the rows without seed by score, OWP and
\* OOWP, equal rows in the order the database returned them
CutRankings(st, cur) ==
    LET finalMatch == SelectSeq(cur, LAMBDA m : m.isTopCutRound /\ m.reported)[1]
        both == IF finalMatch.winnerId = NoPlayer THEN {}
                ELSE {finalMatch.player1, finalMatch.player2} \cap DOMAIN st
        winner == both \cap {finalMatch.winnerId}
        runnerUp == both \ winner
        sizes == {n \in 3 .. config.topCutSize : IsPowerOfTwo(n)}
        staged(u) == {n \in sizes : StageName(n) = st[u].eliminationStage}
        seeded == {u \in DOMAIN st \ both : st[u].initialSeed > 0}
        key(u) == IF staged(u) # {} THEN <<0, First(staged(u)), st[u].initialSeed>>
                  ELSE <<1, 0, st[u].initialSeed>>
        less(a, b) == \/ a[1] < b[1]
                      \/ a[1] = b[1] /\ a[2] < b[2]
                      \/ a[1] = b[1] /\ a[2] = b[2] /\ a[3] < b[3]
        mid == CHOOSE o \in Perms(seeded) :
                  \A i, j \in 1 .. Len(o) : i < j => ~less(key(o[j]), key(o[i]))
        unseeded == (DOMAIN st \ both) \ seeded
        head == (IF winner = {} THEN <<>> ELSE <<First(winner)>>)
                \o (IF runnerUp = {} THEN <<>> ELSE <<First(runnerUp)>>)
    IN {[order |-> head \o mid \o tail,
         rank |-> [u \in DOMAIN st |->
                      IF u \in winner THEN 1
                      ELSE IF u \in runnerUp THEN 2
                      ELSE 2 + First({i \in 1 .. Len(mid \o tail) : (mid \o tail)[i] = u})]] :
          tail \in {o \in Perms(unseeded) :
                       \A i, j \in 1 .. Len(o) : i < j => ~Lower3(st[o[i]], st[o[j]])}}

\* finishTournament with final ranks that need not be 1 .. n: the prize of a
\* band is shared among the ranks present in it, the remainder and the
\* tournament win go to rank 1 if somebody holds it
RankedUsers(us, rank, st, pool) ==
    LET ranks == {rank[u] : u \in DOMAIN rank}
        bands == PRIZE_PROPORTIONS(ProportionsKey(PrizeBracket(1,
                    IF config.cutType = "points"
                    THEN Cardinality({u \in DOMAIN st : st[u].score >= config.pointsRequired})
                    ELSE config.topCutSize)))
        inBand(r) == {b \in 1 .. Len(bands) : r >= bands[b].lo /\ r <= bands[b].hi}
        share == [b \in 1 .. Len(bands) |->
                    LET forRange == (pool * bands[b].part) \div 10000
                        n == Cardinality({r \in ranks : b \in inBand(r)})
                    IN IF forRange <= 0 \/ n = 0 THEN 0 ELSE forRange \div n]
        base == [r \in ranks |-> SumOver(inBand(r), share)]
        remainder == pool - SumOver(ranks, base)
        prize(r) == IF pool <= 0 THEN 0
                    ELSE IF prizeMode = "all" THEN (IF r = 1 THEN pool ELSE 0)
                    ELSE IF prizeMode = "spread"
                    THEN (IF r = 1 /\ remainder > 0 THEN base[r] + remainder ELSE base[r])
                    ELSE 0
    IN [u \in DOMAIN us |->
          IF u \notin DOMAIN rank THEN us[u]
          ELSE [us[u] EXCEPT
                  !.elo = @ + prize(rank[u]),
                  !.tournamentWins = @ + (IF rank[u] = 1 /\ prize(1) > 0 THEN 1 ELSE 0),
                  !.tournamentParticipations = @ + 1,
                  !.totalWins = @ + st[u].wins,
                  !.totalLosses = @ + st[u].losses]]

(***************************************************************************)
(* The Day-2 cut of a two-phase tournament in execute of the /validate     *)
(* command: PlayerStats.bulkWrite with one updateOne per row of the        *)
(* standings, then the rows are fetched and calculateStandings runs again. *)
(***************************************************************************)
\* $set of one path through the PlayerStats model: the update is cast to
\* the schema, and a path the schema does not declare is left out of it
SchemaSet(ps, path, value) ==
    IF path \in DOMAIN ps THEN [ps EXCEPT ![path] = value] ELSE ps

\* ((phase1Rounds - 3) * 3) + 1
Day2Threshold(phase1Rounds) == (phase1Rounds - 3) * 3 + 1

Day2Cut(st, phase1Rounds) ==
    [u \in DOMAIN st |->
        IF st[u].score >= Day2Threshold(phase1Rounds)
        THEN SchemaSet(st[u], "receivedByeInRound", 0)
        ELSE SchemaSet(SchemaSet(st[u], "activeInTournament", FALSE),
                       "tiebreakersFrozen", TRUE)]

\* the rows execute goes on with: calculateStandings, and after the last
\* round of phase 1 the cut and calculateStandings on the rows fetched again
StandingsRows(st) ==
    IF config.isTwoPhase /\ currentRound = config.phase1Rounds
    THEN Tiebreakers(Day2Cut(Tiebreakers(st), config.phase1Rounds))
    ELSE Tiebreakers(st)

(***************************************************************************)
(* execute(interaction) of the /validate command, in one transaction       *)
(***************************************************************************)
\* a validate without the check of the reported matches
ValidateUnchecked(actor) ==
    /\ actor = Organizer
    /\ status = "active"

\* organizerId, status, no matches found, unreportedMatches
ValidateAllowed(actor) ==
    /\ actor = Organizer
    /\ status = "active"
    /\ LET cur == MatchesOfRound(matches, currentRound)
       IN /\ ~(Len(cur) = 0 /\ currentRound > 0)
          /\ \A i \in 1 .. Len(cur) : cur[i].reported

ValidateBegin(actor, s) ==
    /\ MayBegin(s)
    /\ IF ValidateAllowed(actor)
       THEN /\ txns' = [txns EXCEPT ![s] = [op |-> "validate", user |-> actor,
                                            stale |-> FALSE, round |-> currentRound,
                                            elo0 |-> 0]]
            /\ UNCHANGED <<status, currentRound, participants, config, prizeMode, bracket, follow, reporting,
                           standings, matches, oidCounter, stats, users, failed,
                           resets, drops, aborts>>
       ELSE Rejected

\* session.abortTransaction(): nothing of the call is written
ValidateAborts(s) ==
    /\ txns' = [txns EXCEPT ![s] = NoTxn]
    /\ Returned(FALSE)
    /\ UNCHANGED <<status, currentRound, participants, config, prizeMode, bracket, follow, reporting,
                   standings, matches, oidCounter, stats, users, resets, drops, aborts>>

\* currentRound < numSwissRounds: the next Swiss round, or the Error of
\* generateNextSwissRoundPairings when the backtracking finds no pairing
NextSwissRound(s, st, bye, found) ==
    IF found.ok
    THEN LET round == currentRound + 1
             new == NewRoundMatches(bye, SortedPairs(found.pairs), oidCounter,
                                    Len(matches), round)
         IN /\ currentRound' = round
            /\ matches' = ClearSnapshots(matches, currentRound) \o new
            /\ oidCounter' = oidCounter + Len(new)
            /\ stats' = PairedStats(st, new, round)
            /\ txns' = [MarkStale(txns) EXCEPT ![s] = NoTxn]
            /\ Returned(TRUE)
            /\ UNCHANGED <<status, participants, config, prizeMode, bracket, follow, reporting, standings,
                           users, resets, drops, aborts>>
    ELSE ValidateAborts(s)

\* the last Swiss round of a tournament without top cut: finishTournament
\* with finalRank = index + 1, then every Match and PlayerStats row deleted;
\* where no player has reached the points of a points cut the rows are
\* passed on without finalRank and the standings are stored without rank
FinishSwiss(s, st, sorted) ==
    /\ status' = "finished"
    /\ standings' = IF Cardinality(participants) >= NoCutBelow /\ config.cutType = "points"
                    THEN [i \in 1 .. Len(sorted) |->
                            [FinalStandings(sorted, st)[i] EXCEPT !.rank = 0]]
                    ELSE FinalStandings(sorted, st)
    /\ users' = FinishedUsers(users, sorted, st, Stake * Cardinality(participants))
    /\ matches' = <<>>
    /\ stats' = <<>>
    /\ txns' = [MarkStale(txns) EXCEPT ![s] = NoTxn]
    /\ Returned(TRUE)
    /\ UNCHANGED <<currentRound, participants, config, prizeMode, bracket, follow, reporting, oidCounter,
                   resets, drops, aborts>>

\* the end of the Swiss rounds of a tournament with a top cut: the seeds
\* 1, 2, ... in the order of the standings, the first round of the bracket
StartTopCut(s, st, players) ==
    LET round == currentRound + 1
        new == FirstCutMatches(players, oidCounter, Len(matches), round)
        seeded == [u \in DOMAIN st |->
                     IF u \in Range(players)
                     THEN [st[u] EXCEPT !.initialSeed = RankIn(players, u)]
                     ELSE st[u]]
    IN /\ config' = [config EXCEPT !.topCutSize = BracketSizeFor(2, Len(players))]
       /\ currentRound' = round
       /\ matches' = ClearSnapshots(matches, currentRound) \o new
       /\ oidCounter' = oidCounter + Len(new)
       /\ stats' = CutStats(seeded, new)
       /\ txns' = [MarkStale(txns) EXCEPT ![s] = NoTxn]
       /\ Returned(TRUE)
       /\ UNCHANGED <<status, participants, prizeMode, bracket, follow, reporting, standings,
                      users, resets, drops, aborts>>

\* a round of the top cut: one winner among its matches ends the
\* tournament, several winners are paired for the next round, no winner
\* leaves the round as it is
TopCutRound(s) ==
    LET cur == MatchesOfRound(matches, currentRound)
        top == SelectSeq(cur, LAMBDA m : m.isTopCutRound /\ m.reported)
        winners == {top[i].winnerId : i \in 1 .. Len(top)} \cap DOMAIN stats
        out == Eliminated(stats, cur)
    IN IF Cardinality(winners) = 1
       THEN IF RunnerUpThrows(stats, top[1]) THEN ValidateAborts(s)
            ELSE \E r \in CutRankings(stats, cur) :
                 /\ status' = "finished"
                 /\ standings' = [i \in 1 .. Len(r.order) |->
                                     [FinalStandings(r.order, stats)[i] EXCEPT
                                         !.rank = r.rank[r.order[i]]]]
                 /\ users' = RankedUsers(users, r.rank, stats,
                                         Stake * Cardinality(participants))
                 /\ matches' = <<>>
                 /\ stats' = <<>>
                 /\ txns' = [MarkStale(txns) EXCEPT ![s] = NoTxn]
                 /\ Returned(TRUE)
                 /\ UNCHANGED <<currentRound, participants, config, prizeMode, bracket, follow,
                                reporting, oidCounter, resets, drops, aborts>>
       ELSE LET round == currentRound + 1
                new == IF Cardinality(winners) > 1
                       THEN NextCutMatches(stats, matches, winners, oidCounter,
                                           Len(matches), round)
                       ELSE <<>>
            IN /\ currentRound' = IF Cardinality(winners) > 1 THEN round ELSE currentRound
               /\ matches' = ClearSnapshots(matches, currentRound) \o new
               /\ oidCounter' = oidCounter + Len(new)
               /\ stats' = CutStats(out, new)
               /\ txns' = [MarkStale(txns) EXCEPT ![s] = NoTxn]
               /\ Returned(TRUE)
               /\ UNCHANGED <<status, participants, config, prizeMode, bracket, follow,
                              reporting, standings, users, resets, drops, aborts>>

\* a filter that asks for more than the points required
PointsExceeded(sorted, st) ==
    SelectSeq(sorted, LAMBDA u : st[u].score > config.pointsRequired)

\* currentStandings.filter(p => p.score >= tournament.config.pointsRequired)
PointsReached(sorted, st) ==
    SelectSeq(sorted, LAMBDA u : st[u].score >= config.pointsRequired)

ValidateCommit(s) ==
    /\ txns[s].op = "validate"
    /\ IF WriteConflict(txns[s]) THEN ValidateAborts(s)
       ELSE IF config.topCutSize > 0 /\ currentRound > config.numSwissRounds
       THEN TopCutRound(s)
       ELSE \E st \in {StandingsRows(stats)} :
            \E sortings \in {PossibleStandings(st, matches)} :
               IF currentRound < config.numSwissRounds
               THEN \E bye \in {ByeRecipient(st, sorted) : sorted \in sortings} :
                      \E found \in findSwissPairings(st,
                            {u \in DOMAIN st : st[u].activeInTournament} \ {bye}) :
                         NextSwissRound(s, st, bye, found)
               ELSE \E sorted \in sortings :
                      LET reached == PointsReached(sorted, st)
                      IN IF Cardinality(participants) < NoCutBelow
                         THEN FinishSwiss(s, st, sorted)
                         ELSE IF config.cutType = "points"
                         THEN IF Len(reached) = 0 THEN FinishSwiss(s, st, sorted)
                              ELSE StartTopCut(s, st, reached)
                         ELSE IF config.topCutSize > 0
                         THEN StartTopCut(s, st,
                                 SubSeq(sorted, 1, IF config.topCutSize < Len(sorted)
                                                   THEN config.topCutSize ELSE Len(sorted)))
                         ELSE FinishSwiss(s, st, sorted)

(***************************************************************************)
(* finalizeTournament(tournamentId): no transaction                        *)
(***************************************************************************)
\* getTournamentStandings sorts by score, OWP, OOWP descending; rows equal
\* in all three come in the order the database returns them
TopRows(st) == {u \in DOMAIN st : \A v \in DOMAIN st : ~Lower3(st[u], st[v])}

\* prize mode all: the first row, if active, receives the pool and a
\* tournament win; prize mode spread: the rows carry neither initialSeed nor
\* a finalRank, no rank range has a player
FinalizePrize(us, st, pool, top) ==
    IF pool > 0 /\ prizeMode = "all" /\ top # NoPlayer /\ st[top].activeInTournament
    THEN [us EXCEPT ![top].elo = @ + pool, ![top].tournamentWins = @ + 1]
    ELSE us

FinalizeLifetime(us, st) ==
    [u \in DOMAIN us |->
        IF u \in participants /\ u \in DOMAIN st
        THEN [us[u] EXCEPT !.tournamentParticipations = @ + 1,
                           !.totalWins = @ + st[u].wins,
                           !.totalLosses = @ + st[u].losses]
        ELSE us[u]]

\* a finalize without the check of the status
FinalizeAnyStatus == TRUE

\* if (tournament.status !== 'active') throw
FinalizeAllowed == status = "active"

Finalize ==
    IF FinalizeAllowed
    THEN /\ MayWrite
         /\ status' = "finished"
         /\ \E top \in (IF DOMAIN stats = {} THEN {NoPlayer} ELSE TopRows(stats)) :
               users' = FinalizeLifetime(
                           FinalizePrize(users, stats, Stake * Cardinality(participants), top),
                           stats)
         /\ txns' = MarkStale(txns)
         /\ Returned(TRUE)
         /\ UNCHANGED <<currentRound, participants, config, prizeMode, bracket, follow, reporting, standings,
                        matches, oidCounter, stats, resets, drops, aborts>>
    ELSE Rejected

(***************************************************************************)
(* The calls a run is made of.                                             *)
(***************************************************************************)
Join(U) == \E u \in U, s \in Slots : \E actor \in {u, Organizer} : JoinBegin(u, actor, s)

JoinEnd == \E s \in Slots : JoinCommit(s)

Leave(U) == \E u \in U, s \in Slots : \E actor \in {u, PoorUser} : LeaveBegin(u, actor, s)

LeaveEnd == \E s \in Slots : LeaveCommit(s)

StartCall == \E actor \in {Organizer, PoorUser} : Start(actor)

\* a result of either kind by the organizer, a report by somebody else, a
\* report of a match that does not exist
ReportCall ==
    \/ \E i \in 1 .. Len(matches) :
         \E winnerId \in {matches[i].player1, matches[i].player2} \ {NoPlayer} :
            \E drawOpponentId \in {NoPlayer, matches[i].player2} :
               Report(matches[i].matchId, winnerId, drawOpponentId, Organizer)
    \/ \E i \in 1 .. Len(matches) : Report(matches[i].matchId, PoorUser, NoPlayer, PoorUser)
    \/ Report(Len(matches) + 1, Organizer, NoPlayer, Organizer)

\* a run holds MaxInterventions calls of dropPlayer and resetRound together
InterventionLeft == resets + drops < MaxInterventions

DropCall ==
    /\ InterventionLeft
    /\ \/ \E playerId \in Field \cup {PoorUser} : DropPlayer(playerId, Organizer)
       \/ DropPlayer(Organizer, PoorUser)

ResetCall ==
    /\ InterventionLeft
    /\ \E roundNumber \in 1 .. currentRound + 1 : ResetRound(roundNumber)

Validate == \E s \in Slots : \E actor \in {Organizer, PoorUser} : ValidateBegin(actor, s)

ValidateEnd == \E s \in Slots : ValidateCommit(s)

\* registration calls one after the other
JoinAlone == Idle /\ Join(Field \cup {PoorUser})

LeaveAlone == Idle /\ Leave(Field)

StartAlone == Idle /\ StartCall

Next ==
    \/ JoinAlone
    \/ JoinEnd
    \/ LeaveAlone
    \/ LeaveEnd
    \/ StartAlone
    \/ ReportCall
    \/ DropCall
    \/ ResetCall
    \/ Validate
    \/ ValidateEnd
    \/ Finalize

Spec == Init /\ [][Next]_vars

\* registration calls next to each other
JoinAny == Join(Users)

LeaveAny == Leave(Users)

RegistrationNext ==
    \/ JoinAny
    \/ JoinEnd
    \/ LeaveAny
    \/ LeaveEnd
    \/ StartCall

SpecRegistration == Init /\ [][RegistrationNext]_vars

\* a tournament with more users who hold the stake than places: every user
\* of Users has the Aura of a new user
InitCap ==
    /\ status = "pending"
    /\ currentRound = 0
    /\ participants = {}
    /\ config = [numSwissRounds |-> 0, topCutSize |-> 0, cutType |-> "rank",
                 pointsRequired |-> 0, isTwoPhase |-> FALSE, phase1Rounds |-> 0]
    /\ prizeMode \in {"all", "spread"}
    /\ standings = <<>>
    /\ matches = <<>>
    /\ oidCounter = 0
    /\ stats = <<>>
    /\ users = [u \in Users |-> [NewUser(u) EXCEPT !.elo = DefaultElo]]
    /\ txns = [s \in Slots |-> NoTxn]
    /\ failed = FALSE
    /\ resets = 0
    /\ drops = 0
    /\ aborts = 0
    /\ bracket = NoBracket
    /\ follow = NoFollow
    /\ reporting = [s \in Slots |-> NoReport]

SpecCap == InitCap /\ [][RegistrationNext]_vars

\* a full tournament up to the pairings of its last Swiss round: the
\* organizer starts once MaxPlayersCap users have joined, reports the
\* first player of a match as its winner, and every call runs alone
JoinFull == Idle /\ Join(Users)

StartFull == Idle /\ Cardinality(participants) = MaxPlayersCap /\ StartCall

ReportFirstWins ==
    \E i \in 1 .. Len(matches) :
       Report(matches[i].matchId, matches[i].player1, NoPlayer, Organizer)

ValidateEarly == Idle /\ currentRound < config.numSwissRounds /\ Validate

ResetEarlier == \E roundNumber \in 1 .. currentRound - 1 : ResetRound(roundNumber)

\* createTournament with prize mode all
InitFull == Init /\ prizeMode = "all"

FullNext ==
    \/ JoinFull
    \/ JoinEnd
    \/ StartFull
    \/ ReportFirstWins
    \/ ResetEarlier
    \/ ValidateEarly
    \/ ValidateEnd

\* reports of the matches of round 1 next to each other
ReportBeginCall ==
    \E s \in Slots : \E i \in 1 .. Len(matches) :
       \E winnerId \in {matches[i].player1, matches[i].player2} \ {NoPlayer} :
          \E drawOpponentId \in {NoPlayer, matches[i].player2} :
             ReportBegin(s, matches[i].matchId, winnerId, drawOpponentId, Organizer)

ReportEnd == \E s \in Slots : ReportCommit(s)

ReportNext ==
    \/ JoinAlone
    \/ JoinEnd
    \/ StartAlone
    \/ ReportBeginCall
    \/ ReportEnd

SpecReport == Init /\ [][ReportNext]_vars

\* registration, then one of the two start operations of the service
StartPlainCall == Idle /\ \E topCutSize \in {0, 2} : startTournament(3, topCutSize)

StartNext ==
    \/ JoinAlone
    \/ JoinEnd
    \/ LeaveAlone
    \/ LeaveEnd
    \/ StartAlone
    \/ StartPlainCall

SpecStart == Init /\ [][StartNext]_vars

SpecFull == InitFull /\ [][FullNext]_vars

\* a tournament with a top cut at its last Swiss round.  The users who can
\* pay have joined, one more than the smallest field with a top cut; the
\* organizer has started the tournament, in every round played the first
\* player of a match has won, and the rounds were validated with the byes
\* and the pairings of CutSchedule.
CutPlayers == (1 .. NoCutBelow + 2) \ {PoorUser}

\* the k-th of CutPlayers in ascending order
CutPlayer(k) == CHOOSE u \in CutPlayers : Cardinality({v \in CutPlayers : v < u}) = k - 1

\* the bye and the pairs of every Swiss round, players by their place in
\* CutPlayers
CutTable ==
    <<[bye |-> 9, pairs |-> <<<<1, 2>>, <<3, 4>>, <<5, 6>>, <<7, 8>>>>],
      [bye |-> 8, pairs |-> <<<<1, 3>>, <<2, 9>>, <<4, 6>>, <<5, 7>>>>],
      [bye |-> 6, pairs |-> <<<<1, 5>>, <<2, 3>>, <<4, 7>>, <<8, 9>>>>],
      [bye |-> 7, pairs |-> <<<<1, 4>>, <<2, 8>>, <<3, 6>>, <<5, 9>>>>]>>

CutSchedule ==
    [r \in 1 .. Len(CutTable) |->
       [bye |-> CutPlayer(CutTable[r].bye),
        pairs |-> [i \in 1 .. Len(CutTable[r].pairs) |->
                     <<CutPlayer(CutTable[r].pairs[i][1]),
                       CutPlayer(CutTable[r].pairs[i][2])>>]]]

\* reportMatch for every match from position i on, the first player wins
RECURSIVE FirstWins(_, _, _)
FirstWins(st, ms, i) ==
    IF i > Len(ms) THEN [stats |-> st, matches |-> ms]
    ELSE IF ms[i].reported THEN FirstWins(st, ms, i + 1)
    ELSE FirstWins(ReportedStats(st, ms[i], ms[i].player1, FALSE),
                   [ms EXCEPT ![i] = ReportedMatch(@, st, ms[i].player1, FALSE)], i + 1)

\* the rows and the matches once round r is paired: startTournamentWithPairings
\* for round 1, the reports of round r - 1 and its validate for a later round
RECURSIVE SwissPlayed(_)
SwissPlayed(r) ==
    IF r = 1
    THEN LET pairs == CutSchedule[1].pairs
             order == [k \in 1 .. 2 * Len(pairs) |-> pairs[(k + 1) \div 2][2 - (k % 2)]]
                      \o <<CutSchedule[1].bye>>
             ms == Round1Matches(order, 1, 1)
         IN [stats |-> Round1Stats([u \in CutPlayers |-> NewPlayerStats], ms), matches |-> ms]
    ELSE LET played == FirstWins(SwissPlayed(r - 1).stats, SwissPlayed(r - 1).matches, 1)
             new == NewRoundMatches(CutSchedule[r].bye, CutSchedule[r].pairs,
                                    Len(played.matches), Len(played.matches), r)
         IN [stats |-> PairedStats(Tiebreakers(played.stats), new, r),
             matches |-> ClearSnapshots(played.matches, r - 1) \o new]

InitCut ==
    /\ status = "active"
    /\ currentRound = Len(CutSchedule)
    /\ participants = CutPlayers
    /\ \E cutType \in {"rank", "points"} :
          \E pointsRequired \in (IF cutType = "rank" THEN {0} ELSE CutPoints) :
             LET params == getTournamentParameters(Cardinality(CutPlayers))
             IN config = [numSwissRounds |-> params.numSwissRounds,
                          topCutSize |-> IF cutType = "rank" THEN params.topCutSize ELSE 0,
                          cutType |-> cutType,
                          pointsRequired |-> IF cutType = "rank" \/ pointsRequired # 0
                                             THEN pointsRequired ELSE params.pointsRequired,
                          isTwoPhase |-> params.isTwoPhase,
                          phase1Rounds |-> params.phase1Rounds]
    /\ prizeMode = "spread"
    /\ standings = <<>>
    /\ \E run \in {SwissPlayed(Len(CutSchedule))} :
          /\ matches = run.matches
          /\ oidCounter = Len(run.matches)
          /\ stats = run.stats
    /\ users = [u \in CutPlayers |-> [NewUser(u) EXCEPT !.elo = @ - Stake]]
    /\ txns = [s \in Slots |-> NoTxn]
    /\ failed = FALSE
    /\ resets = 0
    /\ drops = 0
    /\ aborts = 0
    /\ bracket = NoBracket
    /\ follow = NoFollow
    /\ reporting = [s \in Slots |-> NoReport]

\* the matches are reported in their order: in the Swiss rounds the first
\* player wins, in the top cut a match is won by either player or drawn
ReportInTurn ==
    \E i \in 1 .. Len(matches) :
       /\ \A j \in 1 .. i - 1 : matches[j].reported
       /\ ~matches[i].reported
       /\ \E winnerId \in {matches[i].player1, matches[i].player2} \ {NoPlayer} :
             \E drawOpponentId \in {NoPlayer, matches[i].player2} :
                /\ matches[i].isTopCutRound
                     \/ (winnerId = matches[i].player1 /\ drawOpponentId = NoPlayer)
                /\ Report(matches[i].matchId, winnerId, drawOpponentId, Organizer)

ValidateAlone == Idle /\ Validate

\* the organizer drops a player of the match that is next to be reported
DropInTurn ==
    \E i \in 1 .. Len(matches) :
       /\ \A j \in 1 .. i - 1 : matches[j].reported
       /\ ~matches[i].reported
       /\ \E playerId \in {matches[i].player1, matches[i].player2} \ {NoPlayer} :
             DropPlayer(playerId, Organizer)

CutNext ==
    \/ ReportInTurn
    \/ DropInTurn
    \/ ValidateAlone
    \/ ValidateEnd

SpecCut == InitCut /\ [][CutNext]_vars

\* tournaments to their end: one of MaxPlayersCap players from its
\* creation, too small for a top cut, and the one of CutPlayers from its
\* last Swiss round
InitSwissEnd == InitCut \/ InitFull

SwissEndNext ==
    \/ JoinFull
    \/ JoinEnd
    \/ StartFull
    \/ ReportInTurn
    \/ DropInTurn
    \/ ValidateAlone
    \/ ValidateEnd

SpecSwissEnd == InitSwissEnd /\ [][SwissEndNext]_vars

\* the Day-2 cut on its own.  A two-phase tournament has 65 players or
\* more and the cut handles every row of the standings by itself: the rows
\* of PhasePlayers are three of the rows of such a tournament at the last
\* round of phase 1, with the results of PhaseResults (wins and draws of
\* the six rounds), with or without a bye and dropped by the organizer or
\* not.
SmallestTwoPhase == 65

PhasePlayers == 1 .. 3

PhaseResults == {<<0, 0>>, <<3, 0>>, <<3, 1>>, <<6, 0>>}

PhaseRow(result, bye, active) ==
    [NewPlayerStats EXCEPT !.wins = result[1], !.draws = result[2],
                           !.losses = getTournamentParameters(SmallestTwoPhase).phase1Rounds
                                        - result[1] - result[2],
                           !.score = WinPoints * result[1] + DrawPoints * result[2],
                           !.receivedByeInRound = bye,
                           !.activeInTournament = active]

InitPhase ==
    /\ status = "active"
    /\ LET params == getTournamentParameters(SmallestTwoPhase)
       IN /\ currentRound = params.phase1Rounds
          /\ config = [numSwissRounds |-> params.numSwissRounds,
                       topCutSize |-> params.topCutSize,
                       cutType |-> "rank",
                       pointsRequired |-> 0,
                       isTwoPhase |-> params.isTwoPhase,
                       phase1Rounds |-> params.phase1Rounds]
    /\ stats \in [PhasePlayers ->
                    {PhaseRow(result, bye, active) :
                       result \in PhaseResults, bye \in {0, 2}, active \in BOOLEAN}]
    /\ participants = {u \in PhasePlayers : stats[u].activeInTournament}
    /\ prizeMode = "spread"
    /\ standings = <<>>
    /\ matches = <<>>
    /\ oidCounter = 0
    /\ users = [u \in PhasePlayers |-> [NewUser(u) EXCEPT !.elo = @ - Stake]]
    /\ txns = [s \in Slots |-> NoTxn]
    /\ failed = FALSE
    /\ resets = 0
    /\ drops = 0
    /\ aborts = 0
    /\ bracket = NoBracket
    /\ follow = NoFollow
    /\ reporting = [s \in Slots |-> NoReport]

\* the bulkWrite of the cut applied to the rows; the round that follows is
\* paired from the whole field and is left out
ApplyDay2Cut ==
    /\ status = "active"
    /\ config.isTwoPhase /\ currentRound = config.phase1Rounds
    /\ stats' = Day2Cut(stats, config.phase1Rounds)
    /\ currentRound' = currentRound + 1
    /\ UNCHANGED <<status, participants, config, prizeMode, bracket, follow, reporting,
                   standings, matches, oidCounter, users, txns, failed, resets, drops,
                   aborts>>

SpecPhase == InitPhase /\ [][ApplyDay2Cut]_vars

\* a tournament of MaxPlayersCap users in which the organizer resets the
\* current round and drops a player
ResetCurrent == ResetRound(currentRound)

DropOne == \E playerId \in Users : DropPlayer(playerId, Organizer)

DropNext ==
    \/ JoinFull
    \/ JoinEnd
    \/ StartFull
    \/ ReportFirstWins
    \/ ResetCurrent
    \/ DropOne
    \/ ValidateEarly
    \/ ValidateEnd

SpecDrop == InitFull /\ [][DropNext]_vars

(***************************************************************************)
(* generateBracket(bracketSize) and the way generateTopCutPairings moves   *)
(* the winner of a bracket position to the position named by winnerGoesTo. *)
(***************************************************************************)
TournamentVars == <<status, currentRound, participants, config, prizeMode,
                    standings, matches, oidCounter, stats, users, txns, failed,
                    resets, drops, aborts, reporting>>

\* the matches of all rounds of the bracket, first round first
RECURSIVE MatchesFrom(_, _)
MatchesFrom(rounds, r) ==
    IF r > Len(rounds) THEN <<>> ELSE rounds[r].matches \o MatchesFrom(rounds, r + 1)

BracketMatches == MatchesFrom(bracket.rounds, 1)

\* matches.find(m => m.matchId === pos)
MatchAt(pos) ==
    BracketMatches[CHOOSE i \in 1 .. Len(BracketMatches) : BracketMatches[i].matchId = pos]

\* a call of generateBracket: it throws on a size that is no power of two
GenerateBracket ==
    /\ bracket.rounds = <<>>
    /\ IF ValidBracketSize(bracket.size)
       THEN /\ bracket' = generateBracket(bracket.size)
            /\ UNCHANGED <<TournamentVars, follow>>
       ELSE Rejected

\* two matches of the bracket are played
FollowWinners ==
    /\ bracket.rounds # <<>>
    /\ follow.at = <<>>
    /\ \E a, b \in 1 .. Len(BracketMatches) :
          follow' = [from |-> <<BracketMatches[a].matchId, BracketMatches[b].matchId>>,
                     at |-> <<BracketMatches[a].matchId, BracketMatches[b].matchId>>]
    /\ UNCHANGED <<TournamentVars, bracket>>

\* the winner of a match is paired at its nextBracketPosition, where the
\* next position is the winnerGoesTo of the bracket
AdvanceWinner ==
    /\ follow.at # <<>>
    /\ \E k \in 1 .. 2 :
          /\ MatchAt(follow.at[k]).winnerGoesTo # NoPosition
          /\ follow' = [follow EXCEPT !.at[k] = MatchAt(follow.at[k]).winnerGoesTo]
    /\ UNCHANGED <<TournamentVars, bracket>>

\* the bracket sizes asked for
InitBracket ==
    /\ Created
    /\ prizeMode = "all"
    /\ bracket \in [size : 0 .. MaxBracketSize, rounds : {<<>>}]
    /\ follow = NoFollow
    /\ reporting = [s \in Slots |-> NoReport]

BracketNext ==
    \/ GenerateBracket
    \/ FollowWinners
    \/ AdvanceWinner

SpecBracket == InitBracket /\ [][BracketNext]_vars

(***************************************************************************)
(* C1: every Swiss round that is created, round 1 at start and each later  *)
(* round at validate, pairs no two players who already met in a match of   *)
(* the tournament, puts every active player in exactly one match of the    *)
(* round and holds at most one bye.                                        *)
(***************************************************************************)
RoundCreated == oidCounter' > oidCounter

CreatedMatches == {i \in 1 .. Len(matches') : matches'[i].oid > oidCounter}

Met(ms, a, b) ==
    \E i \in 1 .. Len(ms) : {ms[i].player1, ms[i].player2} = {a, b}

NoRematch ==
    \A i \in CreatedMatches :
        ~IsBye(matches'[i]) => ~Met(matches, matches'[i].player1, matches'[i].player2)

EveryActivePlayerOnce ==
    \A u \in DOMAIN stats' :
        stats'[u].activeInTournament =>
            Cardinality({i \in CreatedMatches : PlaysIn(matches'[i], u)}) = 1

AtMostOneBye == Cardinality({i \in CreatedMatches : IsBye(matches'[i])}) <= 1

C1_SwissRoundsWellFormed ==
    [][RoundCreated => NoRematch /\ EveryActivePlayerOnce /\ AtMostOneBye]_vars

(***************************************************************************)
(* C2: in every reachable state the wins, losses and draws of all          *)
(* PlayerStats rows, less one win for every bye match, add up to twice the *)
(* number of reported matches between two players.                         *)
(***************************************************************************)
ByeMatches == {i \in 1 .. Len(matches) : IsBye(matches[i])}

ReportedNonBye == {i \in 1 .. Len(matches) : ~IsBye(matches[i]) /\ matches[i].reported}

ResultsCounted == SumOver(DOMAIN stats, [u \in DOMAIN stats |-> Played(stats[u])])

C2_ResultsMatchReports ==
    ResultsCounted - Cardinality(ByeMatches) = 2 * Cardinality(ReportedNonBye)

(***************************************************************************)
(* C3: a call that ends in an error leaves the tournament, its matches,    *)
(* its PlayerStats rows and the users as they were before the call: the    *)
(* step that ends the call changes none of them, and the balance a join or *)
(* leave read when it began is the balance again.                          *)
(***************************************************************************)
CallEnds(s) == txns[s].op # "none" /\ txns'[s].op = "none"

EndsInError == failed' /\ ((\E s \in Slots : CallEnds(s)) \/ resets' # resets)

Documents == <<status, currentRound, participants, config, prizeMode, standings,
               matches, stats, users>>

BalanceAsBefore ==
    \A s \in Slots :
        CallEnds(s) /\ txns[s].op \in {"join", "leave"}
            => users'[txns[s].user].elo = txns[s].elo0

C3_FailedCallChangesNothing ==
    [][EndsInError => (UNCHANGED Documents) /\ BalanceAsBefore]_vars

(***************************************************************************)
(* C4: of the validate calls that run next to each other on a round at     *)
(* most one takes effect.  A validate that takes effect finds the          *)
(* tournament active and in the round it read, and either creates the      *)
(* matches of the one next round or finishes the tournament; every other   *)
(* validate ends in an error and changes nothing.                          *)
(***************************************************************************)
ValidateEnds(s) == txns[s].op = "validate" /\ txns'[s].op = "none"

TakesEffect == ~UNCHANGED <<Documents, oidCounter>>

OneRoundCreated ==
    /\ currentRound' = currentRound + 1
    /\ status' = "active"
    /\ oidCounter' > oidCounter
    /\ \A i \in 1 .. Len(matches') :
          matches'[i].oid > oidCounter <=> matches'[i].roundNumber = currentRound'

FinishedOnce ==
    /\ currentRound' = currentRound
    /\ status' = "finished"
    /\ oidCounter' = oidCounter

C4_OneValidateTakesEffect ==
    [][\A s \in Slots :
          ValidateEnds(s) =>
             IF TakesEffect
             THEN /\ status = "active"
                  /\ currentRound = txns[s].round
                  /\ OneRoundCreated \/ FinishedOnce
                  /\ ~failed'
             ELSE failed']_vars

\* a validate is still open after the validate next to it took effect
C4_Witness ==
    \E s \in Slots :
        /\ txns[s].op = "validate"
        /\ txns[s].round < currentRound \/ status = "finished"

(***************************************************************************)
(* C5: the status changes only from pending to active, from active to      *)
(* finished, or from pending or active to cancelled; a finished or         *)
(* cancelled tournament keeps its status.                                  *)
(***************************************************************************)
C5_StatusMonotone ==
    [][status' # status =>
          \/ status = "pending" /\ status' = "active"
          \/ status = "active" /\ status' = "finished"
          \/ status \in {"pending", "active"} /\ status' = "cancelled"]_vars

\* a tournament that went through both changes, finished by validate
C5_Witness == status = "finished" /\ Len(standings) > 0

BackToEarlierRound ==
    /\ currentRound' >= 1
    /\ currentRound' < currentRound
    /\ \A i \in 1 .. Len(matches') :
          /\ ~(matches'[i].roundNumber > currentRound')
          /\ matches'[i].roundNumber = currentRound' => ~matches'[i].reported

C7_ParticipantsOnlyWhilePending ==
    [][participants' # participants => status = "pending"]_vars

(***************************************************************************)
(* C7, amended: the participants list changes while the status is pending  *)
(* or, in an active tournament, by a drop, which takes the dropped player  *)
(* out of the list and marks the row of the player inactive; nothing else  *)
(* adds or removes a participant.                                          *)
(***************************************************************************)
DroppedOne ==
    /\ status = "active"
    /\ drops' = drops + 1
    /\ \E u \in participants :
          /\ participants' = participants \ {u}
          /\ u \in DOMAIN stats'
          /\ ~stats'[u].activeInTournament

C7_ParticipantsChangeByDropOnly ==
    [][participants' # participants => status = "pending" \/ DroppedOne]_vars

\* a player was dropped from the running tournament
C7_Witness ==
    /\ status = "active"
    /\ drops > 0
    /\ Cardinality(participants) < Cardinality(DOMAIN stats)

(***************************************************************************)
(* C8: once the tournament has started, user records change only in the    *)
(* step that takes the status from active to finished; that step credits   *)
(* nothing or the prize pool in total, takes nothing from anybody, and     *)
(* gives every participant with a row one participation and the wins and   *)
(* losses of the row.  No later call changes a user record.                *)
(***************************************************************************)
Finishing == status = "active" /\ status' = "finished"

Credited ==
    SumOver(Users, [u \in Users |-> users'[u].elo])
        - SumOver(Users, [u \in Users |-> users[u].elo])

LifetimeApplied ==
    \A u \in participants \cap DOMAIN stats :
        /\ users'[u].tournamentParticipations = users[u].tournamentParticipations + 1
        /\ users'[u].totalWins = users[u].totalWins + stats[u].wins
        /\ users'[u].totalLosses = users[u].totalLosses + stats[u].losses

C9_MembershipRowAndStake ==
    status = "pending" /\ Idle =>
        \A u \in Users :
            /\ u \in participants <=> u \in DOMAIN stats
            /\ users[u].elo = InitElo(u) - (IF u \in participants THEN Stake ELSE 0)

(***************************************************************************)
(* C10: after a resetRound, reporting again the original result of every   *)
(* match it reset gives every player the wins, losses, draws, score,       *)
(* matchesPlayed and opponents the player had right before the reset.      *)
(* Stated for the resets that discard no result of a later round.          *)
(***************************************************************************)
ResetStep == resets' = resets + 1

WasReset(i) ==
    /\ matches[i].reported
    /\ \E j \in 1 .. Len(matches') :
          matches'[j].oid = matches[i].oid /\ ~matches'[j].reported

NoLaterResult ==
    \A i \in 1 .. Len(matches) :
        matches[i].reported => ~(matches[i].roundNumber > currentRound')

\* reportMatch with the result the match had; a bye cannot be reported
RECURSIVE ReReport(_, _)
ReReport(st, I) ==
    IF I = {} THEN st
    ELSE LET i == CHOOSE j \in I : TRUE
             m == matches[i]
         IN ReReport(IF IsBye(m) THEN st
                     ELSE ReportedStats(st, m, m.winnerId, m.isDraw),
                     I \ {i})

Results(ps) ==
    [wins |-> ps.wins, losses |-> ps.losses, draws |-> ps.draws, score |-> ps.score,
     matchesPlayed |-> ps.matchesPlayed, opponents |-> ps.opponents]

C10_ResetThenReReportRestores ==
    [][ResetStep /\ NoLaterResult =>
          \E again \in {ReReport(stats', {i \in 1 .. Len(matches) : WasReset(i)})} :
             \A u \in DOMAIN stats : Results(again[u]) = Results(stats[u])]_vars

(***************************************************************************)
(* C11: when no complete pairing without a rematch exists for the active   *)
(* players of the next Swiss round, the bye recipient set aside, the       *)
(* validate call ends in an error, currentRound keeps its value and no     *)
(* match of the next round is stored.                                      *)
(***************************************************************************)
\* the players of S can be split into pairs that have not faced each other
RECURSIVE HasPairing(_, _)
HasPairing(st, S) ==
    IF S = {} THEN TRUE
    ELSE LET a == CHOOSE x \in S : TRUE
         IN \E b \in S \ {a} :
               /\ b \notin st[a].opponents
               /\ a \notin st[b].opponents
               /\ HasPairing(st, S \ {a, b})

ActivePlayers(st) == {u \in DOMAIN st : st[u].activeInTournament}

\* whatever order the tie-breaks leave, the players left after the bye
\* cannot be paired
NoCompletePairing ==
    \E st \in {Tiebreakers(stats)} :
       \A sorted \in PossibleStandings(st, matches) :
          ~HasPairing(st, ActivePlayers(st) \ {ByeRecipient(st, sorted)})

RoundNotAdvanced ==
    /\ failed'
    /\ currentRound' = currentRound
    /\ oidCounter' = oidCounter
    /\ matches' = matches
    /\ \A i \in 1 .. Len(matches') : ~(matches'[i].roundNumber > currentRound)

C11_NoPairingFailsValidate ==
    [][\A s \in Slots :
          /\ ValidateEnds(s)
          /\ ~txns[s].stale
          /\ currentRound < config.numSwissRounds
          /\ NoCompletePairing
          => RoundNotAdvanced]_vars

\* a validate failed on a round whose players cannot be paired again
C11_Witness ==
    /\ status = "active"
    /\ failed
    /\ Idle
    /\ currentRound >= 1
    /\ currentRound < config.numSwissRounds
    /\ \A i \in 1 .. Len(matches) : matches[i].reported
    /\ NoCompletePairing

(***************************************************************************)
(* C12: a validate call is taken up only from the organizer and only when  *)
(* every match of currentRound is reported, and only such a call changes   *)
(* currentRound or finishes the tournament; a validate made while a match  *)
(* of the current round is unreported is rejected.                         *)
(***************************************************************************)
AllReported(ms, r) ==
    \A i \in 1 .. Len(ms) : ms[i].roundNumber = r => ms[i].reported

ValidateOpens(s) == txns[s].op # "validate" /\ txns'[s].op = "validate"

C12_ValidateNeedsOrganizerAndReports ==
    [][\A s \in Slots :
          /\ ValidateOpens(s) =>
                /\ txns'[s].user = Organizer
                /\ AllReported(matches, currentRound)
          /\ ValidateEnds(s) /\ (currentRound' # currentRound \/ status' # status) =>
                /\ txns[s].user = Organizer
                /\ AllReported(matches, currentRound)]_vars

\* a validate moved the tournament on, and a match of the new round is open
C12_Witness ==
    /\ status = "active"
    /\ currentRound >= 2
    /\ ~failed
    /\ ~AllReported(matches, currentRound)
    /\ \E i \in 1 .. Len(matches) :
          matches[i].roundNumber = currentRound /\ matches[i].reported

(***************************************************************************)
(* C13: in the step that finishes a tournament with prize mode all, the    *)
(* player of rank 1 gains exactly stake times the number of participants   *)
(* in Aura and one tournament win, and the Aura and the tournament wins of *)
(* every other user stay as they were.                                     *)
(***************************************************************************)
PrizePool == Stake * Cardinality(participants)

\* rank 1 in either order of the standings: nobody with as many results has
\* a higher score
NotOutscored(w) ==
    \A v \in DOMAIN stats :
        ~(stats[v].score > stats[w].score /\ Played(stats[v]) >= Played(stats[w]))

WinnerTakesAll ==
    \E w \in DOMAIN stats :
        /\ NotOutscored(w)
        /\ users'[w].elo = users[w].elo + PrizePool
        /\ users'[w].tournamentWins = users[w].tournamentWins + 1
        /\ \A u \in Users \ {w} :
              /\ users'[u].elo = users[u].elo
              /\ users'[u].tournamentWins = users[u].tournamentWins

C13_WinnerTakesAll ==
    [][Finishing /\ prizeMode = "all" => WinnerTakesAll]_vars

(***************************************************************************)
(* C14: in the step that finishes a tournament with prize mode spread,     *)
(* every band of ranks of a proportions table receives the whole part of   *)
(* the pool that is pool times its proportion, every occupied rank of the  *)
(* band the whole part of that amount divided by the number of occupied    *)
(* ranks, and rank 1 on top of its share everything of the pool that the   *)
(* shares leave over.                                                      *)
(***************************************************************************)
PrizeTables == {"top4_no_cut", "top4_cut", "top8_cut", "top16_cut", "top32_cut"}

\* the share of rank k among the ranks 1 .. n
BandShare(bands, pool, n, k) ==
    LET mine == {b \in 1 .. Len(bands) : bands[b].lo <= k /\ k <= bands[b].hi}
    IN IF mine = {} THEN 0
       ELSE LET band == bands[CHOOSE b \in mine : TRUE]
                occupants == Cardinality({r \in 1 .. n : band.lo <= r /\ r <= band.hi})
            IN ((pool * band.part) \div 10000) \div occupants

ExpectedSpread(bands, pool, n) ==
    LET share == [k \in 1 .. n |-> BandShare(bands, pool, n, k)]
        left == pool - SumOver(1 .. n, share)
    IN [k \in 1 .. n |-> IF k = 1 THEN share[k] + left ELSE share[k]]

Gain(u) == users'[u].elo - users[u].elo

SpreadPaid ==
    \E key \in PrizeTables :
       \E ranked \in Perms(DOMAIN stats) :
          /\ NotOutscored(ranked[1])
          /\ \A k \in 1 .. Len(ranked) :
                Gain(ranked[k]) =
                   ExpectedSpread(PRIZE_PROPORTIONS(key), PrizePool, Len(ranked))[k]
          /\ \A u \in Users \ DOMAIN stats : Gain(u) = 0

C14_SpreadByBands ==
    [][Finishing /\ prizeMode = "spread" => SpreadPaid]_vars

(***************************************************************************)
(* C15: the standings calculation of a validate leaves every player who    *)
(* has faced an opponent with an OWP from 0.25 to 1 and an OOWP from 0 to  *)
(* 1, and every player who has faced none with OWP 0 and OOWP 0.           *)
(***************************************************************************)
FLeq(x, y) == ~FLess(y, x)

WithOpponents(owp, oowp) ==
    /\ FLeq(<<1, 4>>, owp) /\ FLeq(owp, <<1, 1>>)
    /\ FLeq(FZero, oowp) /\ FLeq(oowp, <<1, 1>>)

WithoutOpponents(owp, oowp) == owp = FZero /\ oowp = FZero

\* the rows as the validate wrote them, or the final standings made of them
TiebreakersInRange ==
    IF status' = "finished"
    THEN /\ Len(standings') = Cardinality(DOMAIN stats)
         /\ \A i \in 1 .. Len(standings') :
               \/ WithOpponents(standings'[i].owp, standings'[i].oowp)
               \/ WithoutOpponents(standings'[i].owp, standings'[i].oowp)
         /\ Cardinality({i \in 1 .. Len(standings') :
                            WithoutOpponents(standings'[i].owp, standings'[i].oowp)})
               = Cardinality({u \in DOMAIN stats : stats[u].opponents = {}})
    ELSE \A u \in DOMAIN stats :
            IF stats[u].opponents = {}
            THEN WithoutOpponents(stats'[u].owp, stats'[u].oowp)
            ELSE WithOpponents(stats'[u].owp, stats'[u].oowp)

PositionsOf(bm) == {bm[i].matchId : i \in 1 .. Len(bm)}

FinalPositionsOf(bm) ==
    {bm[i].matchId : i \in {j \in 1 .. Len(bm) : bm[j].winnerGoesTo = NoPosition}}

FinalPositions == FinalPositionsOf(BracketMatches)

\* the position at which following winnerGoesTo from match i stops
RECURSIVE ChainEnd(_, _, _)
ChainEnd(bm, i, fuel) ==
    IF bm[i].winnerGoesTo = NoPosition \/ fuel = 0 THEN bm[i].matchId
    ELSE ChainEnd(bm, CHOOSE j \in 1 .. Len(bm) : bm[j].matchId = bm[i].winnerGoesTo,
                  fuel - 1)

\* seed is a source of the first-round match at pos
HoldsSeed(pos, seed) ==
    \E i \in 1 .. Len(bracket.rounds[1].matches) :
       /\ bracket.rounds[1].matches[i].matchId = pos
       /\ \/ bracket.rounds[1].matches[i].source_1 = seed
          \/ bracket.rounds[1].matches[i].source_2 = seed

TopSeedsFollowed ==
    /\ follow.at # <<>>
    /\ HoldsSeed(follow.from[1], 1)
    /\ HoldsSeed(follow.from[2], 2)

C16_BracketLeadsToOneFinal ==
    bracket.rounds # <<>> =>
        \E bm \in {BracketMatches} :
            /\ bracket.size \in {2, 4, 8, 16, 32}
            /\ Cardinality(PositionsOf(bm)) = Len(bm)
            /\ Len(bm) = bracket.size - 1
            /\ Cardinality(FinalPositionsOf(bm)) = 1
            /\ \A i \in 1 .. Len(bm) :
                  \/ bm[i].winnerGoesTo = NoPosition
                  \/ bm[i].winnerGoesTo \in PositionsOf(bm)
            /\ \A i \in 1 .. Len(bm) :
                  ChainEnd(bm, i, Len(bracket.rounds)) \in FinalPositionsOf(bm)
            /\ TopSeedsFollowed /\ follow.at[1] = follow.at[2]
                  => follow.at[1] \in FinalPositionsOf(bm)

C16_Witness ==
    /\ bracket.size = 32
    /\ TopSeedsFollowed
    /\ follow.from[1] # follow.from[2]
    /\ follow.at[1] = follow.at[2]
    /\ follow.at[1] \in FinalPositions

(***************************************************************************)
(* C17: when the organizer drops an active player whose match of the       *)
(* current round is unreported, that match becomes reported with winnerId  *)
(* the opponent, the score of the opponent rises by exactly 3, and the     *)
(* dropped player is inactive and no longer in tournament.participants.    *)
(***************************************************************************)
\* the step is a drop of u, whose match i of the current round was open
DropsWithOpenMatch(u, i) ==
    /\ drops' = drops + 1
    /\ u \in DOMAIN stats
    /\ stats[u].activeInTournament
    /\ ~stats'[u].activeInTournament
    /\ matches[i].roundNumber = currentRound
    /\ u \in {matches[i].player1, matches[i].player2}
    /\ ~matches[i].reported

OpponentIn(m, u) == IF m.player1 = u THEN m.player2 ELSE m.player1

DropAwardsOpponent(u, i) ==
    /\ matches'[i].reported
    /\ matches'[i].winnerId = OpponentIn(matches[i], u)
    /\ matches'[i].winnerId # NoPlayer
    /\ stats'[OpponentIn(matches[i], u)].score
          = stats[OpponentIn(matches[i], u)].score + WinPoints
    /\ u \notin participants'

ByeVoided(u, i) ==
    /\ matches'[i].reported
    /\ matches'[i].winnerId = NoPlayer
    /\ \A v \in DOMAIN stats \ {u} : stats'[v] = stats[v]
    /\ u \notin participants'

CreatedByes == {i \in CreatedMatches : IsBye(matches'[i])}

ByeStoredWon(i) ==
    /\ matches'[i].player1 # NoPlayer
    /\ matches'[i].reported
    /\ matches'[i].winnerId = matches'[i].player1
    /\ ~matches'[i].isDraw
    /\ stats'[matches'[i].player1].score = stats[matches'[i].player1].score + WinPoints
    /\ stats'[matches'[i].player1].wins = stats[matches'[i].player1].wins + 1

StartsWithFive == status = "pending" /\ Cardinality(participants) = 5

OneByeTwoMatches ==
    /\ Cardinality(CreatedByes) = 1
    /\ Cardinality(CreatedMatches \ CreatedByes) = 2
    /\ \A i \in CreatedMatches : matches'[i].roundNumber = 1

C18_ByesStoredReported ==
    [][RoundCreated =>
          /\ \A i \in CreatedByes : ByeStoredWon(i)
          /\ StartsWithFive => OneByeTwoMatches]_vars

C18_Witness ==
    /\ Cardinality(DOMAIN stats) = 5
    /\ Len(MatchesOfRound(matches, 1)) = 3
    /\ \E i, j \in 1 .. Len(matches) :
          /\ IsBye(matches[i]) /\ matches[i].roundNumber = 1
          /\ IsBye(matches[j]) /\ matches[j].roundNumber = 2
          /\ matches[i].reported /\ matches[i].winnerId = matches[i].player1
          /\ matches[j].reported /\ matches[j].winnerId = matches[j].player1
          /\ stats[matches[j].player1].score >= WinPoints

(***************************************************************************)
(* C19: in every reachable state each reported match with two players has  *)
(* either winnerId one of its two players and isDraw false, or isDraw true *)
(* and winnerId null; never both and never neither.                        *)
(***************************************************************************)
TwoPlayers(m) == m.player1 # NoPlayer /\ m.player2 # NoPlayer

WonByPlayer(m) == m.winnerId \in {m.player1, m.player2} /\ ~m.isDraw

Drawn(m) == m.isDraw /\ m.winnerId = NoPlayer

C19_WinnerOrDraw ==
    \A i \in 1 .. Len(matches) :
        matches[i].reported /\ TwoPlayers(matches[i]) =>
            /\ WonByPlayer(matches[i]) \/ Drawn(matches[i])
            /\ ~(WonByPlayer(matches[i]) /\ Drawn(matches[i]))

C19_Witness ==
    \E i, j, k \in 1 .. Len(matches) :
        /\ matches[i].reported /\ TwoPlayers(matches[i]) /\ Drawn(matches[i])
        /\ matches[j].reported /\ TwoPlayers(matches[j]) /\ WonByPlayer(matches[j])
        /\ matches[j].player1StatsBeforeReport.set
        /\ matches[k].reported /\ TwoPlayers(matches[k]) /\ WonByPlayer(matches[k])
        /\ ~matches[k].player1StatsBeforeReport.set
        /\ ~stats[OpponentIn(matches[k], matches[k].winnerId)].activeInTournament

C21_ScoreFromResults ==
    \A u \in DOMAIN stats :
        stats[u].score = WinPoints * stats[u].wins + DrawPoints * stats[u].draws

C21_Witness ==
    /\ resets > 0
    /\ \E u, v \in DOMAIN stats :
          /\ stats[u].wins > 0 /\ stats[u].draws > 0
          /\ stats[v].losses > 0 /\ stats[v].score > 0

(***************************************************************************)
(* C22: a match that is already reported cannot be reported again: while   *)
(* the tournament stays active its result is kept as stored by every step  *)
(* but a reset, and no step other than the creation of a round raises the  *)
(* number of results of a player by more than the number of that player's  *)
(* matches the step turns from unreported to reported, so a match is       *)
(* counted at most once between two resets.                                *)
(***************************************************************************)
ResultKept(i) ==
    \E j \in 1 .. Len(matches') :
       /\ matches'[j].oid = matches[i].oid
       /\ matches'[j].reported
       /\ matches'[j].winnerId = matches[i].winnerId
       /\ matches'[j].isDraw = matches[i].isDraw

TurnedReported(u) ==
    {i \in 1 .. Len(matches) :
        /\ PlaysIn(matches[i], u)
        /\ ~matches[i].reported
        /\ \E j \in 1 .. Len(matches') :
              matches'[j].oid = matches[i].oid /\ matches'[j].reported}

CountedOnce ==
    \A u \in DOMAIN stats :
        u \in DOMAIN stats' =>
            Played(stats'[u]) - Played(stats[u]) <= Cardinality(TurnedReported(u))

C22_NoDoubleReport ==
    [][resets' = resets /\ status' = "active" =>
          /\ \A i \in 1 .. Len(matches) : matches[i].reported => ResultKept(i)
          /\ ~RoundCreated => CountedOnce]_vars

C22_Witness ==
    /\ status = "active"
    /\ \E i, j \in 1 .. Len(matches) :
          /\ matches[i].reported /\ matches[i].player1StatsBeforeReport.set
          /\ matches[i].roundNumber = currentRound
          /\ Played(stats[matches[i].player1]) = 1
          /\ ~matches[j].reported

(***************************************************************************)
(* C28: a start takes effect only when the organizer calls it on a pending *)
(* tournament with at least 4 participants; it then sets status active and *)
(* currentRound 1 and creates the matches of round 1, every participant in *)
(* exactly one of them.  A pending tournament with fewer than 4            *)
(* participants stays pending with currentRound 0 and without matches.     *)
(***************************************************************************)
Round1Created ==
    /\ status' = "active"
    /\ currentRound' = 1
    /\ matches = <<>>
    /\ Len(matches') = (Cardinality(participants) + 1) \div 2
    /\ \A i \in 1 .. Len(matches') : matches'[i].roundNumber = 1
    /\ \A u \in participants :
          Cardinality({i \in 1 .. Len(matches') : PlaysIn(matches'[i], u)}) = 1

StaysPending == status' = "pending" /\ currentRound' = 0 /\ matches' = <<>>

C28_StartNeedsOrganizerAndFour ==
    [][/\ status = "pending" /\ status' # "pending" =>
             /\ Cardinality(participants) >= MinPlayers
             /\ Round1Created
       /\ \A actor \in Users :
             Start(actor) /\ vars' # vars => actor = Organizer /\ status = "pending"
       /\ status = "pending" /\ Cardinality(participants) < MinPlayers => StaysPending]_vars

(***************************************************************************)
(* C29: the organizer can drop an active player whose match of the current *)
(* round is a bye: in every state of an active tournament dropPlayer       *)
(* accepts such a player, so that the player becomes inactive, leaves the  *)
(* participants and the bye is void.                                       *)
(***************************************************************************)
HoldsCurrentBye(u) ==
    /\ status = "active"
    /\ u \in DOMAIN stats
    /\ stats[u].activeInTournament
    /\ CurrentMatchOf(u) # {}
    /\ IsBye(matches[First(CurrentMatchOf(u))])

C29_ByeHolderCanBeDropped ==
    \A u \in Users : HoldsCurrentBye(u) => DropAllowed(u, Organizer)

(***************************************************************************)
(* C26: aura is conserved over a tournament with a positive stake: the     *)
(* total credited as prizes in the step that finishes the tournament       *)
(* equals the total stake taken at join and not refunded by leave, so the  *)
(* users hold after that step what they held before the tournament.        *)
(***************************************************************************)
InitialAura == SumOver(Users, [u \in Users |-> InitElo(u)])

StakesHeld == InitialAura - SumOver(Users, [u \in Users |-> users[u].elo])

C26_AuraConserved == [][Finishing => Credited = StakesHeld]_vars

(***************************************************************************)
(* C23: two concurrent report calls for two different matches of the same  *)
(* round both succeed: a report during which only reports of other matches *)
(* were committed commits without error, and it leaves the matches and the *)
(* rows as the same report executed alone on the state it commits in; two  *)
(* reports in flight for different matches give the same matches and rows  *)
(* in either order.                                                        *)
(***************************************************************************)
\* reportMatch executed alone on the matches ms and the rows st
Alone(ms, st, t) ==
    LET i == First({k \in 1 .. Len(ms) : ms[k].oid = t.match.oid})
    IN IF ms[i].reported THEN [matches |-> ms, stats |-> st]
       ELSE [matches |-> [ms EXCEPT ![i] = ReportedMatch(@, st, t.winnerId, t.isDraw)],
             stats |-> ReportedStats(st, ms[i], t.winnerId, t.isDraw)]

OneAfterTheOther(t1, t2) ==
    Alone(Alone(matches, stats, t1).matches, Alone(matches, stats, t1).stats, t2)

CommitsReport(s) == reporting[s].op = "report" /\ reporting'[s].op = "none"

OnlyOtherMatches(t) ==
    /\ t.match.oid \notin t.others
    /\ \A i \in 1 .. Len(matches) :
          matches[i].oid \in t.others => matches[i].roundNumber = t.match.roundNumber

InFlightApart(s1, s2) ==
    /\ s1 # s2
    /\ reporting[s1].op = "report" /\ reporting[s2].op = "report"
    /\ reporting[s1].match.oid # reporting[s2].match.oid
    /\ reporting[s1].match.roundNumber = reporting[s2].match.roundNumber

C23_ConcurrentReportsCommute ==
    [][/\ \A s \in Slots :
             CommitsReport(s) /\ OnlyOtherMatches(reporting[s]) =>
                 /\ ~failed'
                 /\ matches' = Alone(matches, stats, reporting[s]).matches
                 /\ stats' = Alone(matches, stats, reporting[s]).stats
       /\ \A s1, s2 \in Slots :
             InFlightApart(s1, s2) =>
                 OneAfterTheOther(reporting[s1], reporting[s2])
                     = OneAfterTheOther(reporting[s2], reporting[s1])]_vars

\* a report in flight during which the report of another match was
\* committed, and which will commit
C23_Witness ==
    \E s \in Slots :
       /\ reporting[s].op = "report"
       /\ reporting[s].others # {}
       /\ OnlyOtherMatches(reporting[s])
       /\ ~reporting[s].stale
       /\ \E i \in 1 .. Len(matches) :
             matches[i].oid \in reporting[s].others /\ matches[i].reported

(***************************************************************************)
(* C25: a tournament that has entered the top cut becomes finished only    *)
(* when the round just validated consists of the single Final match of the *)
(* bracket and that match has a winner; the validate of an earlier round   *)
(* of the bracket never finishes the tournament.                           *)
(***************************************************************************)
InTopCut == currentRound > config.numSwissRounds /\ config.topCutSize > 0

FinalDecided ==
    LET cur == MatchesOfRound(matches, currentRound)
    IN /\ Len(cur) = 1
       /\ cur[1].bracketPosition = "Final"
       /\ cur[1].winnerId # NoPlayer

C25_FinishOnlyAfterFinal ==
    [][InTopCut /\ status = "active" /\ status' = "finished" => FinalDecided]_vars

(***************************************************************************)
(* C24: whenever the tournament is active and every match of currentRound  *)
(* is reported, a validate by the organizer that is not aborted by a write *)
(* conflict either creates the next round and advances currentRound or     *)
(* finishes the tournament, whatever the cut type and the reported         *)
(* results, a drawn top-cut match and a points cut reached by one player   *)
(* included.                                                               *)
(***************************************************************************)
Advanced == currentRound' = currentRound + 1 /\ RoundCreated

C24_ValidateAdvancesOrFinishes ==
    [][\A s \in Slots :
          ValidateEnds(s) /\ ~WriteConflict(txns[s]) => status' = "finished" \/ Advanced]_vars

(***************************************************************************)
(* C27: a player who has been dropped by the organizer or eliminated at    *)
(* the Day-2 cut, whose row has activeInTournament false, is in no match   *)
(* created afterwards, neither of a later Swiss round nor of the top cut.  *)
(***************************************************************************)
Inactive == {u \in DOMAIN stats : ~stats[u].activeInTournament}

C27_InactiveNeverPaired ==
    [][\A i \in CreatedMatches : \A u \in Inactive : ~PlaysIn(matches'[i], u)]_vars

(***************************************************************************)
(* C30: after resetRound on a round r earlier than currentRound no match   *)
(* with a round number greater than r remains, every match of round r is   *)
(* unreported with no winner and no draw flag, and every player who had    *)
(* been eliminated in the top cut is active again.                         *)
(***************************************************************************)
RoundUndone(r) ==
    \A i \in 1 .. Len(matches') :
       /\ ~(matches'[i].roundNumber > r)
       /\ matches'[i].roundNumber = r =>
             /\ ~matches'[i].reported
             /\ matches'[i].winnerId = NoPlayer
             /\ ~matches'[i].isDraw

EliminatedActive ==
    \A u \in DOMAIN stats : stats[u].eliminationStage # "" => stats'[u].activeInTournament

C30_ResetOfEarlierRound ==
    [][\A r \in 1 .. currentRound - 1 :
          ResetRound(r) /\ resets' > resets => RoundUndone(r) /\ EliminatedActive]_vars

(***************************************************************************)
(* C31: in every reachable state, after a resetRound too, every bye match  *)
(* is reported with winnerId = player1 and the row of its recipient holds  *)
(* the win and the 3 points of the bye.                                    *)
(***************************************************************************)
ByeHeld(m) ==
    /\ m.reported
    /\ m.winnerId = m.player1
    /\ m.player1 \in DOMAIN stats =>
          stats[m.player1].wins >= 1 /\ stats[m.player1].score >= WinPoints

C31_ByesStayReported == \A i \in ByeMatches : ByeHeld(matches[i])

(***************************************************************************)
(* C32: in a two-phase tournament the validate of the last round of phase  *)
(* 1 makes exactly the players with a score below (phase1Rounds - 3) * 3   *)
(* + 1 inactive with frozen tiebreakers and leaves their                   *)
(* receivedByeInRound, and sets receivedByeInRound to 0 for exactly the    *)
(* players at or above that score, whom it does not make inactive.         *)
(***************************************************************************)
CutApplied ==
    config.isTwoPhase /\ currentRound = config.phase1Rounds /\ currentRound' > currentRound

BelowThreshold(u) == stats[u].score < (config.phase1Rounds - 3) * 3 + 1

CutOut(u) ==
    /\ ~stats'[u].activeInTournament
    /\ stats'[u].receivedByeInRound = stats[u].receivedByeInRound

Advancing(u) ==
    /\ stats'[u].activeInTournament = stats[u].activeInTournament
    /\ stats'[u].receivedByeInRound = 0

C32_Day2Cut ==
    [][CutApplied =>
          \A u \in DOMAIN stats :
             IF BelowThreshold(u) THEN CutOut(u) /\ Frozen(stats'[u]) ELSE Advancing(u)]_vars

\* the cut without the frozen tiebreakers
Day2CutActiveAndBye ==
    [][CutApplied =>
          \A u \in DOMAIN stats :
             IF BelowThreshold(u) THEN CutOut(u) ELSE Advancing(u)]_vars

(***************************************************************************)
(* C33: a validate of the last Swiss round that is not aborted finishes    *)
(* the tournament, without a top-cut match, exactly when the tournament    *)
(* has fewer than 8 participants or has a points cut and no row with the   *)
(* points required; in every other case it leaves the tournament active,   *)
(* adds one to currentRound and creates the matches of the first top-cut   *)
(* round.                                                                  *)
(***************************************************************************)
LastSwissValidated ==
    /\ status = "active"
    /\ currentRound = config.numSwissRounds
    /\ \E s \in Slots : ValidateEnds(s) /\ ~WriteConflict(txns[s])

NoTopCut ==
    \/ Cardinality(participants) < NoCutBelow
    \/ /\ config.cutType = "points"
       /\ \A u \in DOMAIN stats : stats[u].score < config.pointsRequired

TopCutBegins ==
    /\ status' = "active"
    /\ currentRound' = currentRound + 1
    /\ CreatedMatches # {}
    /\ \A i \in CreatedMatches :
          matches'[i].isTopCutRound /\ matches'[i].roundNumber = currentRound'

FirstCutCreated == LastSwissValidated /\ status' = "active" /\ currentRound' > currentRound

Qualifiers == {u \in DOMAIN stats' : stats'[u].initialSeed > 0}

QualifiersExpected ==
    IF config.cutType = "points"
    THEN Qualifiers = {u \in DOMAIN stats : stats[u].score >= config.pointsRequired}
    ELSE Cardinality(Qualifiers) = config.topCutSize

SeedsInARow ==
    {stats'[u].initialSeed : u \in Qualifiers} = 1 .. Cardinality(Qualifiers)

BracketSizeCreated == 2 * Cardinality(CreatedMatches)

SmallestBracket ==
    /\ ValidBracketSize(BracketSizeCreated)
    /\ BracketSizeCreated >= Cardinality(Qualifiers)
    /\ BracketSizeCreated = 2 \/ BracketSizeCreated \div 2 < Cardinality(Qualifiers)

OnceInFirstRound ==
    /\ \A u \in Qualifiers :
          Cardinality({i \in CreatedMatches : PlaysIn(matches'[i], u)}) = 1
    /\ \A i \in CreatedMatches :
          /\ matches'[i].player1 \in Qualifiers
          /\ matches'[i].player2 \in Qualifiers \cup {NoPlayer}
          /\ matches'[i].player2 # matches'[i].player1

SeedsMeet ==
    \A i \in CreatedMatches :
       LET m == matches'[i]
           opposing == BracketSizeCreated + 1 - stats'[m.player1].initialSeed
       IN IF opposing <= Cardinality(Qualifiers)
          THEN /\ m.player2 # NoPlayer
               /\ stats'[m.player2].initialSeed = opposing
               /\ ~m.reported /\ m.winnerId = NoPlayer
          ELSE /\ m.player2 = NoPlayer
               /\ m.reported /\ m.winnerId = m.player1 /\ ~m.isDraw

C34_FirstCutRound ==
    [][FirstCutCreated =>
          /\ QualifiersExpected
          /\ SeedsInARow
          /\ SmallestBracket
          /\ OnceInFirstRound
          /\ SeedsMeet]_vars

C34_Witness ==
    /\ status = "active"
    /\ currentRound = config.numSwissRounds + 1
    /\ \E i, j \in 1 .. Len(matches) :
          /\ matches[i].isTopCutRound /\ matches[j].isTopCutRound
          /\ IsBye(matches[i]) /\ ~IsBye(matches[j])

(***************************************************************************)
(* C35: a validate that creates a top-cut round after the first puts       *)
(* every winner of the round before in exactly one match of the new round, *)
(* together with the winner of the other match with the same               *)
(* nextBracketPosition, and nobody else: no player who lost is paired      *)
(* again and no winner stays without a match.                              *)
(***************************************************************************)
LaterCutCreated ==
    /\ status = "active" /\ status' = "active"
    /\ currentRound > config.numSwissRounds
    /\ currentRound' > currentRound
    /\ \E s \in Slots : ValidateEnds(s)

PreviousCut == {i \in 1 .. Len(matches) :
                  matches[i].roundNumber = currentRound /\ matches[i].isTopCutRound}

WinnersOfPrevious == {matches[i].winnerId : i \in PreviousCut} \ {NoPlayer}

WonAt(u) == CHOOSE i \in PreviousCut : matches[i].winnerId = u

WinnersPaired ==
    \A u \in WinnersOfPrevious :
       \E i \in CreatedMatches :
          /\ PlaysIn(matches'[i], u)
          /\ \A j \in CreatedMatches : PlaysIn(matches'[j], u) => j = i
          /\ matches'[i].bracketPosition = matches[WonAt(u)].nextBracketPosition

OnlyWinnersPaired ==
    \A i \in CreatedMatches :
       /\ {matches'[i].player1, matches'[i].player2} \subseteq WinnersOfPrevious
       /\ matches'[i].player1 # matches'[i].player2
       /\ matches'[i].roundNumber = currentRound' /\ matches'[i].isTopCutRound

C35_LaterCutRounds ==
    [][LaterCutCreated => WinnersPaired /\ OnlyWinnersPaired]_vars

\* the part that holds: nobody but a winner of the round before is paired
OnlyWinnersInLaterRounds == [][LaterCutCreated => OnlyWinnersPaired]_vars

(***************************************************************************)
(* C36: in every reachable state the tournament, whose maxPlayers is       *)
(* MaxPlayersCap, has at most maxPlayers participants and as many          *)
(* PlayerStats rows, also when join calls for the last free place run next *)
(* to each other.                                                          *)
(***************************************************************************)
C36_PlayerCap ==
    MaxPlayersCap > 0 =>
       /\ Cardinality(participants) <= MaxPlayersCap
       /\ status = "pending" => Cardinality(DOMAIN stats) <= MaxPlayersCap

\* two joins were under way for the last place: one of them is a
\* participant, the other ended with a write conflict
C36_Witness ==
    /\ Cardinality(participants) = MaxPlayersCap
    /\ aborts > 0
    /\ failed
    /\ \E u \in Users \ participants : users[u].elo >= Stake

(***************************************************************************)
(* C37: of the report calls under way for the same unreported match the    *)
(* one that commits first takes effect as if it were alone, and every      *)
(* other ends in an error and changes neither a match nor a row.  After    *)
(* every                                                                   *)
(* step each row counts one result for every reported match of its player: *)
(* wins + losses + draws is the number of these matches and the score is   *)
(* 3 for a win and 1 for a draw.                                           *)
(***************************************************************************)
SameMatchInFlight(s1, s2) ==
    /\ s1 # s2
    /\ reporting[s1].op = "report" /\ reporting[s2].op = "report"
    /\ reporting[s1].match.oid = reporting[s2].match.oid

SingleResult ==
    \A u \in DOMAIN stats :
       /\ Played(stats[u]) =
             Cardinality({i \in 1 .. Len(matches) :
                            matches[i].reported /\ PlaysIn(matches[i], u)})
       /\ stats[u].score = WinPoints * stats[u].wins + DrawPoints * stats[u].draws

FirstTakesEffect(s1, s2) ==
    /\ ~failed'
    /\ matches' = Alone(matches, stats, reporting[s1]).matches
    /\ stats' = Alone(matches, stats, reporting[s1]).stats
    /\ reporting'[s2].op = "report" /\ reporting'[s2].stale

SecondFails(s) == failed' /\ UNCHANGED <<matches, stats>>

C37_OneReportPerMatch ==
    [][/\ \A s1, s2 \in Slots :
             /\ SameMatchInFlight(s1, s2) /\ CommitsReport(s1)
             /\ reporting[s1].match.oid \notin reporting[s1].others
             => FirstTakesEffect(s1, s2)
       /\ \A s \in Slots :
             CommitsReport(s) /\ reporting[s].match.oid \in reporting[s].others =>
                 SecondFails(s)
       /\ SingleResult']_vars

\* the second of two reports of one match has ended in an error
C37_Witness ==
    /\ failed
    /\ \A s \in Slots : reporting[s].op = "none"
    /\ \E i \in 1 .. Len(matches) : matches[i].reported /\ ~IsBye(matches[i])
    /\ \E u \in DOMAIN stats : Played(stats[u]) = 1

(***************************************************************************)
(* C38: the standings calculateStandings produces for a validate call are  *)
(* in descending order of (matches played, score, OWP, OOWP), and of two   *)
(* rows equal on all four whose players have met, the one who won more of  *)
(* their meetings comes first.                                             *)
(***************************************************************************)
\* a validate call of a Swiss round is about to compute the standings
StandingsComputed ==
    /\ \E s \in Slots : txns[s].op = "validate" /\ ~WriteConflict(txns[s])
    /\ ~(config.topCutSize > 0 /\ currentRound > config.numSwissRounds)

EqualOnFour(a, b) == Played(a) = Played(b) /\ SameKey3(a, b)

DescendingByFour(st, sorted) ==
    \A i, j \in 1 .. Len(sorted) : i < j => ~Before4(st[sorted[j]], st[sorted[i]])

HeadToHeadHonoured(st, ms, sorted) ==
    \A i, j \in 1 .. Len(sorted) :
       i < j /\ EqualOnFour(st[sorted[i]], st[sorted[j]]) => ~Beats(ms, sorted[j], sorted[i])

C38_StandingsOrder ==
    StandingsComputed =>
       \E st \in {StandingsRows(stats)} :
          \A sorted \in PossibleStandings(st, matches) :
             /\ DescendingByFour(st, sorted)
             /\ HeadToHeadHonoured(st, matches, sorted)

\* the first half alone, and the second half alone
StandingsDescending ==
    StandingsComputed =>
       \E st \in {StandingsRows(stats)} :
          \A sorted \in PossibleStandings(st, matches) : DescendingByFour(st, sorted)

StandingsHeadToHead ==
    StandingsComputed =>
       \E st \in {StandingsRows(stats)} :
          \A sorted \in PossibleStandings(st, matches) :
             HeadToHeadHonoured(st, matches, sorted)

(***************************************************************************)
(* C39: when a validate call creates a Swiss round for an odd number of    *)
(* active players, the bye of the new round goes to a player who has not   *)
(* received a bye before if there is such an active player, and among the  *)
(* candidates to one whose (score, OWP, OOWP) no candidate is below; the    *)
(* first round, where every row is new, gives its bye to a participant.    *)
(***************************************************************************)
SwissRoundCreated == RoundCreated /\ currentRound' <= config'.numSwissRounds

NewByes == {i \in CreatedMatches : IsBye(matches'[i])}

\* the player holds a match without an opponent in a round already stored
HadBye(u) == \E i \in ByeMatches : matches[i].player1 = u

ByeCandidates(st) ==
    LET fresh == {u \in ActivePlayers(st) : ~HadBye(u)}
    IN IF fresh = {} THEN ActivePlayers(st) ELSE fresh

\* the candidates as the rows tell them: receivedByeInRound is 0
ByeCandidatesByRow(st) ==
    LET fresh == {u \in ActivePlayers(st) : st[u].receivedByeInRound = 0}
    IN IF fresh = {} THEN ActivePlayers(st) ELSE fresh

LowestOf(st, C, b) == b \in C /\ \A u \in C : ~Lower3(st[u], st[b])

FirstRoundBye ==
    Cardinality(participants) % 2 = 1 =>
       /\ Cardinality(NewByes) = 1
       /\ \A i \in NewByes : matches'[i].player1 \in participants

LaterRoundBye(st, C) ==
    Cardinality(ActivePlayers(st)) % 2 = 1 =>
       /\ Cardinality(NewByes) = 1
       /\ \A i \in NewByes : LowestOf(st, C, matches'[i].player1)

C39_ByeToLowestWithout ==
    [][SwissRoundCreated =>
          IF currentRound = 0 THEN FirstRoundBye
          ELSE \E st \in {StandingsRows(stats)} : LaterRoundBye(st, ByeCandidates(st))]_vars

\* the same with the candidates read from receivedByeInRound
ByeToLowestByRow ==
    [][SwissRoundCreated =>
          IF currentRound = 0 THEN FirstRoundBye
          ELSE \E st \in {StandingsRows(stats)} :
                  LaterRoundBye(st, ByeCandidatesByRow(st))]_vars

\* the second round gave its bye to another player than the first, whose
\* recipient is still active
C39_Witness ==
    \E i, j \in ByeMatches :
       /\ matches[i].roundNumber = 1
       /\ matches[j].roundNumber = 2
       /\ matches[i].player1 # matches[j].player1
       /\ stats[matches[i].player1].activeInTournament

(***************************************************************************)
(* C40: in every reachable state the match ids of the tournament are       *)
(* pairwise distinct, and the matches created for a new round carry the    *)
(* consecutive numbers after the number of matches stored before.          *)
(***************************************************************************)
\* number.toString(): the decimal digits, the first one first
RECURSIVE Digits(_)
Digits(n) == IF n < 10 THEN <<n>> ELSE Digits(n \div 10) \o <<n % 10>>

\* number.toString().padStart(3, '0')
formatMatchId(number) ==
    LET d == Digits(number)
    IN IF Len(d) >= 3 THEN d ELSE [i \in 1 .. 3 - Len(d) |-> 0] \o d

DistinctMatchIds ==
    \A i, j \in 1 .. Len(matches) :
       i # j => formatMatchId(matches[i].matchId) # formatMatchId(matches[j].matchId)

ConsecutiveIds ==
    {formatMatchId(matches'[i].matchId) : i \in CreatedMatches}
       = {formatMatchId(Len(matches) + k) : k \in 1 .. Cardinality(CreatedMatches)}

C40_MatchIds == []DistinctMatchIds /\ [][RoundCreated => ConsecutiveIds]_vars

\* a round created after resetRound has deleted a later round: its numbers
\* are those of the deleted matches
C40_Witness ==
    /\ resets > 0
    /\ \E i \in 1 .. Len(matches) :
          /\ matches[i].oid # matches[i].matchId
          /\ matches[i].roundNumber > 1

====
